---- MODULE Spec2Model ----
(***************************************************************************)
(* Model of the pomodoro timer of js/app.js: the phase schedule, the       *)
(* wall-clock countdown, phase transitions, session statistics and the     *)
(* settings panel.                                                         *)
(*                                                                         *)
(* Time.  The code reads the clock only in `now + remaining * 1000` and in *)
(* `targetTimestamp - Date.now()`, so the state records the target as its  *)
(* distance from the current clock reading: msToTarget is                  *)
(* targetTimestamp - Date.now() in milliseconds, or Null for a null        *)
(* targetTimestamp.  The passage of time (AdvanceClock) lowers it.         *)
(*                                                                         *)
(* Timers.  The setInterval callback (Tick) and the auto-start setTimeout  *)
(* callback (AutoStartFire) may run at any clock reading while they are    *)
(* armed: browsers throttle and delay both.                                *)
(***************************************************************************)
EXTENDS Integers, Sequences, FiniteSets, TLC

\* ------------------------------------------------------------------------
\* Program constants
\* ------------------------------------------------------------------------
MIN_WORK_MINUTES == 10
MIN_BREAK_MINUTES == 1
MAX_BREAK_MINUTES == 10
MIN_LONG_BREAK_MINUTES == 5
DEFAULT_WORK == 25
DEFAULT_BREAK == 5
DEFAULT_LONG_BREAK == 15
ApplyWorkFloor == 5
ClampFloor == 1
ClampCeiling == 60
WorkInputFloor == 10
LongBreakInputFloor == 5
SecondsPerMinute == 60
MsPerSecond == 1000

APP_STATE == [IDLE |-> "idle", RUNNING |-> "running", PAUSED |-> "paused",
              SETTINGS |-> "settings", MILESTONE |-> "milestone"]

\* ------------------------------------------------------------------------
\* Bounds of the model
\* ------------------------------------------------------------------------
\* Clock readings are sampled within Window ms after the start of a
\* countdown and within Window ms of its target; in between the clock jumps.
Window == 1000
\* The clock is followed at most this many ms past the target.
MaxOvershoot == 500
\* totalWorkSeconds is never reset by the code; transitions that would take
\* it beyond this bound (one completed default Work phase and one second of
\* another) are not explored.
MaxTotalWorkSeconds == 1501
\* Milestone acknowledgements explored.
MaxSets == 1

\* Steps of the clock (ms) between two events.
ClockSteps == {500}
\* Values typed into the minutes inputs (parseInt result; NaN is <<>>).
NaN == <<>>
WorkInputValues == {NaN, <<3>>, <<45>>}
BreakInputValues == {<<15>>, <<3>>}
LongBreakInputValues == {<<2>>, <<70>>}
\* Draft durations handed to applySettings when it is checked as a function.
DraftWorkValues == {3, 5, 9, 10, 25, 60, 61}
DraftBreakValues == {0, 1, 5, 10, 15}
DraftLongBreakValues == {2, 5, 15, 61}

Null == <<>>

Max(a, b) == IF a >= b THEN a ELSE b
Min(a, b) == IF a <= b THEN a ELSE b

\* Math.round(ms / 1000): JavaScript rounds halves towards +Infinity.
RoundSeconds(ms) == (ms + 500) \div MsPerSecond

\* Math.max(0, Math.round(diff / 1000)) for diff = targetTimestamp - now.
RemainingFromClock(ms) == Max(0, RoundSeconds(ms))

VARIABLES
  workMinutes, breakMinutes, longBreakMinutes,   \* live durations
  draftDurations,                                \* settings draft
  phases, currentPhaseIndex, currentPhase, totalSeconds, remaining,
  isRunning, intervalId, msToTarget,
  autoStartTimeoutId, autoStartPending,
  settingsOpen, milestonePendingReset, appState,
  wasRunningBeforeSettings, phaseIndexBeforeSettings,
  completedWorkSessions, skippedNotStartedWorkSessions,
  skippedNotCompletedWorkSessions, totalWorkSeconds,
  phaseColors, draftPhaseColors,                 \* live and draft colour maps
  colorTargetPhase,                              \* kind selected in the panel
  setsCompleted,                                 \* stored count of sets (part_000)
  storedSettings,                                \* localStorage item of the settings
  startRemaining, sinceStart,                    \* history of the current run
  setsAcknowledged,                              \* history: milestones acknowledged
  superseded,              \* history: a user command met a pending auto-start
  intervals,               \* the number of setInterval timers not yet cleared
  emitted                  \* the analytics events logged by the latest step

vars == <<workMinutes, breakMinutes, longBreakMinutes, draftDurations,
          phases, currentPhaseIndex, currentPhase, totalSeconds, remaining,
          isRunning, intervalId, msToTarget,
          autoStartTimeoutId, autoStartPending,
          settingsOpen, milestonePendingReset, appState,
          wasRunningBeforeSettings, phaseIndexBeforeSettings,
          completedWorkSessions, skippedNotStartedWorkSessions,
          skippedNotCompletedWorkSessions, totalWorkSeconds,
          phaseColors, draftPhaseColors, colorTargetPhase, setsCompleted,
          storedSettings,
          startRemaining, sinceStart, setsAcknowledged, superseded,
          intervals, emitted>>

\* The program state as one record, so that the functions of app.js, which
\* call one another, compose as operators on states.
State ==
  [workMinutes |-> workMinutes, breakMinutes |-> breakMinutes,
   longBreakMinutes |-> longBreakMinutes, draftDurations |-> draftDurations,
   phases |-> phases, currentPhaseIndex |-> currentPhaseIndex,
   currentPhase |-> currentPhase, totalSeconds |-> totalSeconds,
   remaining |-> remaining, isRunning |-> isRunning,
   intervalId |-> intervalId, msToTarget |-> msToTarget,
   autoStartTimeoutId |-> autoStartTimeoutId,
   autoStartPending |-> autoStartPending,
   settingsOpen |-> settingsOpen,
   milestonePendingReset |-> milestonePendingReset, appState |-> appState,
   wasRunningBeforeSettings |-> wasRunningBeforeSettings,
   phaseIndexBeforeSettings |-> phaseIndexBeforeSettings,
   completedWorkSessions |-> completedWorkSessions,
   skippedNotStartedWorkSessions |-> skippedNotStartedWorkSessions,
   skippedNotCompletedWorkSessions |-> skippedNotCompletedWorkSessions,
   totalWorkSeconds |-> totalWorkSeconds,
   phaseColors |-> phaseColors, draftPhaseColors |-> draftPhaseColors,
   colorTargetPhase |-> colorTargetPhase, setsCompleted |-> setsCompleted,
   storedSettings |-> storedSettings,
   startRemaining |-> startRemaining, sinceStart |-> sinceStart,
   setsAcknowledged |-> setsAcknowledged, superseded |-> superseded,
   intervals |-> intervals, emitted |-> emitted]

\* The state in which a handler or callback is entered: nothing logged yet.
Entry == [State EXCEPT !.emitted = <<>>]

\* logAnalyticsEvent(name, payload).
logAnalyticsEvent(s, name) == [s EXCEPT !.emitted = Append(@, name)]

\* The next state is s.
Becomes(s) ==
  /\ workMinutes' = s.workMinutes
  /\ breakMinutes' = s.breakMinutes
  /\ longBreakMinutes' = s.longBreakMinutes
  /\ draftDurations' = s.draftDurations
  /\ phases' = s.phases
  /\ currentPhaseIndex' = s.currentPhaseIndex
  /\ currentPhase' = s.currentPhase
  /\ totalSeconds' = s.totalSeconds
  /\ remaining' = s.remaining
  /\ isRunning' = s.isRunning
  /\ intervalId' = s.intervalId
  /\ msToTarget' = s.msToTarget
  /\ autoStartTimeoutId' = s.autoStartTimeoutId
  /\ autoStartPending' = s.autoStartPending
  /\ settingsOpen' = s.settingsOpen
  /\ milestonePendingReset' = s.milestonePendingReset
  /\ appState' = s.appState
  /\ wasRunningBeforeSettings' = s.wasRunningBeforeSettings
  /\ phaseIndexBeforeSettings' = s.phaseIndexBeforeSettings
  /\ completedWorkSessions' = s.completedWorkSessions
  /\ skippedNotStartedWorkSessions' = s.skippedNotStartedWorkSessions
  /\ skippedNotCompletedWorkSessions' = s.skippedNotCompletedWorkSessions
  /\ totalWorkSeconds' = s.totalWorkSeconds
  /\ startRemaining' = s.startRemaining
  /\ sinceStart' = s.sinceStart
  /\ setsAcknowledged' = s.setsAcknowledged
  /\ phaseColors' = s.phaseColors
  /\ draftPhaseColors' = s.draftPhaseColors
  /\ colorTargetPhase' = s.colorTargetPhase
  /\ setsCompleted' = s.setsCompleted
  /\ storedSettings' = s.storedSettings
  /\ superseded' = s.superseded
  /\ intervals' = s.intervals
  /\ emitted' = s.emitted

\* ------------------------------------------------------------------------
\* Colour maps and the stored settings document
\* ------------------------------------------------------------------------
defaultPhaseColor == "#2b2f3a"
workDefaultColor == "rgb(255, 159, 174)"
breakDefaultColor == "rgb(43, 47, 58)"

\* A colour map is a record over the keys work, shortBreak, longBreak and
\* break; NoKey under a key says that the object has no such key.
NoKey == "<no key>"

DefaultPhaseColors ==
  [work |-> workDefaultColor, shortBreak |-> breakDefaultColor,
   longBreak |-> defaultPhaseColor, break |-> NoKey]

\* JavaScript truthiness of obj[key]: undefined and "" are falsy.
Truthy(v) == v # NoKey /\ v # ""

\* { ...live, ...saved }
Over(savedValue, liveValue) ==
  IF savedValue # NoKey THEN savedValue ELSE liveValue
SpreadOver(live, saved) ==
  [work |-> Over(saved.work, live.work),
   shortBreak |-> Over(saved.shortBreak, live.shortBreak),
   longBreak |-> Over(saved.longBreak, live.longBreak),
   break |-> Over(saved.break, live.break)]

\* Values found under a numeric field of the stored document.
Num(n) == [type |-> "number", value |-> n]
NotANumber == [type |-> "string", value |-> 0]
Missing == [type |-> "undefined", value |-> 0]

\* saved.phaseColors: an object with some of the colour keys, or nothing
\* usable (missing, or not an object).
Colors(w, sb, lb, b) ==
  [isObject |-> TRUE, work |-> w, shortBreak |-> sb, longBreak |-> lb,
   break |-> b]
NoColors ==
  [isObject |-> FALSE, work |-> NoKey, shortBreak |-> NoKey,
   longBreak |-> NoKey, break |-> NoKey]

\* The localStorage item: kind "none" is no item, "unparsable" makes
\* JSON.parse throw, "scalar" parses to null or to a non-object, "object"
\* parses to an object with the fields given.
Document(kind, w, b, l, pc) ==
  [kind |-> kind, workMinutes |-> w, breakMinutes |-> b,
   longBreakMinutes |-> l, phaseColors |-> pc]
NoDocument == Document("none", Missing, Missing, Missing, NoColors)
Unparsable == Document("unparsable", Missing, Missing, Missing, NoColors)
NotAnObject == Document("scalar", Missing, Missing, Missing, NoColors)

\* Stored documents from which the page is loaded.
StoredWorkValues == {Missing, NotANumber, Num(9), Num(10), Num(40), Num(100)}
StoredBreakValues == {Missing, NotANumber, Num(0), Num(1), Num(10), Num(11)}
StoredLongBreakValues == {Missing, Num(4), Num(5), Num(90)}
StoredColors ==
  {NoColors} \cup
  { Colors(w, sb, NoKey, b) : w \in {NoKey, "#333333"},
                              sb \in {NoKey, "", "#222222"},
                              b \in {NoKey, "", "#111111"} }
StoredDocuments ==
  {NoDocument, Unparsable, NotAnObject} \cup
  { Document("object", w, b, l, pc) : w \in StoredWorkValues,
                                      b \in StoredBreakValues,
                                      l \in StoredLongBreakValues,
                                      pc \in StoredColors }

\* Variant: the lower limits of the stored durations are exclusive.
restoreSettingsFromStorageStrictFloor(s) ==
  LET saved == s.storedSettings
  IN  IF saved.kind # "object" THEN s
      ELSE
        LET pc0 == saved.phaseColors
            migrated == IF pc0.isObject /\ Truthy(pc0.break)
                             /\ ~Truthy(pc0.shortBreak)
                          THEN [pc0 EXCEPT !.shortBreak = pc0.break]
                          ELSE pc0
            pc == IF migrated.isObject /\ migrated.break # NoKey
                    THEN [migrated EXCEPT !.break = NoKey]
                    ELSE migrated
            w == IF saved.workMinutes.type = "number"
                      /\ saved.workMinutes.value > MIN_WORK_MINUTES
                   THEN saved.workMinutes.value ELSE s.workMinutes
            b == IF saved.breakMinutes.type = "number"
                      /\ saved.breakMinutes.value > MIN_BREAK_MINUTES
                      /\ saved.breakMinutes.value <= MAX_BREAK_MINUTES
                   THEN saved.breakMinutes.value ELSE s.breakMinutes
            l == IF saved.longBreakMinutes.type = "number"
                      /\ saved.longBreakMinutes.value > MIN_LONG_BREAK_MINUTES
                   THEN saved.longBreakMinutes.value ELSE s.longBreakMinutes
            colors == IF pc.isObject THEN SpreadOver(s.phaseColors, pc)
                      ELSE s.phaseColors
        IN  [s EXCEPT !.workMinutes = w,
                      !.breakMinutes = b,
                      !.longBreakMinutes = l,
                      !.phaseColors = colors,
                      !.draftDurations = [work |-> w, shortBreak |-> b,
                                          longBreak |-> l],
                      !.draftPhaseColors = colors]

\* Variant: the legacy key is migrated but not deleted.
restoreSettingsFromStorageKeepLegacyKey(s) ==
  LET saved == s.storedSettings
  IN  IF saved.kind # "object" THEN s
      ELSE
        LET pc0 == saved.phaseColors
            pc == IF pc0.isObject /\ Truthy(pc0.break)
                       /\ ~Truthy(pc0.shortBreak)
                    THEN [pc0 EXCEPT !.shortBreak = pc0.break]
                    ELSE pc0
            w == IF saved.workMinutes.type = "number"
                      /\ saved.workMinutes.value >= MIN_WORK_MINUTES
                   THEN saved.workMinutes.value ELSE s.workMinutes
            b == IF saved.breakMinutes.type = "number"
                      /\ saved.breakMinutes.value >= MIN_BREAK_MINUTES
                      /\ saved.breakMinutes.value <= MAX_BREAK_MINUTES
                   THEN saved.breakMinutes.value ELSE s.breakMinutes
            l == IF saved.longBreakMinutes.type = "number"
                      /\ saved.longBreakMinutes.value >= MIN_LONG_BREAK_MINUTES
                   THEN saved.longBreakMinutes.value ELSE s.longBreakMinutes
            colors == IF pc.isObject THEN SpreadOver(s.phaseColors, pc)
                      ELSE s.phaseColors
        IN  [s EXCEPT !.workMinutes = w,
                      !.breakMinutes = b,
                      !.longBreakMinutes = l,
                      !.phaseColors = colors,
                      !.draftDurations = [work |-> w, shortBreak |-> b,
                                          longBreak |-> l],
                      !.draftPhaseColors = colors]

\* Variant: one invalid numeric field rejects the three of them.
restoreSettingsFromStorageAllOrNothing(s) ==
  LET saved == s.storedSettings
  IN  IF saved.kind # "object" THEN s
      ELSE
        LET pc0 == saved.phaseColors
            migrated == IF pc0.isObject /\ Truthy(pc0.break)
                             /\ ~Truthy(pc0.shortBreak)
                          THEN [pc0 EXCEPT !.shortBreak = pc0.break]
                          ELSE pc0
            pc == IF migrated.isObject /\ migrated.break # NoKey
                    THEN [migrated EXCEPT !.break = NoKey]
                    ELSE migrated
            valid == /\ saved.workMinutes.type = "number"
                     /\ saved.workMinutes.value >= MIN_WORK_MINUTES
                     /\ saved.breakMinutes.type = "number"
                     /\ saved.breakMinutes.value >= MIN_BREAK_MINUTES
                     /\ saved.breakMinutes.value <= MAX_BREAK_MINUTES
                     /\ saved.longBreakMinutes.type = "number"
                     /\ saved.longBreakMinutes.value
                          >= MIN_LONG_BREAK_MINUTES
            w == IF valid THEN saved.workMinutes.value ELSE s.workMinutes
            b == IF valid THEN saved.breakMinutes.value ELSE s.breakMinutes
            l == IF valid THEN saved.longBreakMinutes.value
                 ELSE s.longBreakMinutes
            colors == IF pc.isObject THEN SpreadOver(s.phaseColors, pc)
                      ELSE s.phaseColors
        IN  [s EXCEPT !.workMinutes = w,
                      !.breakMinutes = b,
                      !.longBreakMinutes = l,
                      !.phaseColors = colors,
                      !.draftDurations = [work |-> w, shortBreak |-> b,
                                          longBreak |-> l],
                      !.draftPhaseColors = colors]

restoreSettingsFromStorage(s) ==
  LET saved == s.storedSettings
  IN  IF saved.kind # "object" THEN s
      ELSE
        LET pc0 == saved.phaseColors
            migrated == IF pc0.isObject /\ Truthy(pc0.break)
                             /\ ~Truthy(pc0.shortBreak)
                          THEN [pc0 EXCEPT !.shortBreak = pc0.break]
                          ELSE pc0
            pc == IF migrated.isObject /\ migrated.break # NoKey
                    THEN [migrated EXCEPT !.break = NoKey]
                    ELSE migrated
            w == IF saved.workMinutes.type = "number"
                      /\ saved.workMinutes.value >= MIN_WORK_MINUTES
                   THEN saved.workMinutes.value ELSE s.workMinutes
            b == IF saved.breakMinutes.type = "number"
                      /\ saved.breakMinutes.value >= MIN_BREAK_MINUTES
                      /\ saved.breakMinutes.value <= MAX_BREAK_MINUTES
                   THEN saved.breakMinutes.value ELSE s.breakMinutes
            l == IF saved.longBreakMinutes.type = "number"
                      /\ saved.longBreakMinutes.value >= MIN_LONG_BREAK_MINUTES
                   THEN saved.longBreakMinutes.value ELSE s.longBreakMinutes
            colors == IF pc.isObject THEN SpreadOver(s.phaseColors, pc)
                      ELSE s.phaseColors
        IN  [s EXCEPT !.workMinutes = w,
                      !.breakMinutes = b,
                      !.longBreakMinutes = l,
                      !.phaseColors = colors,
                      !.draftDurations = [work |-> w, shortBreak |-> b,
                                          longBreak |-> l],
                      !.draftPhaseColors = colors]

persistSettings(s) ==
  [s EXCEPT !.storedSettings =
     Document("object", Num(s.workMinutes), Num(s.breakMinutes),
              Num(s.longBreakMinutes),
              [isObject |-> TRUE, work |-> s.phaseColors.work,
               shortBreak |-> s.phaseColors.shortBreak,
               longBreak |-> s.phaseColors.longBreak,
               break |-> s.phaseColors.break])]

\* ------------------------------------------------------------------------
\* Phase Schedule Builder
\* ------------------------------------------------------------------------
Phase(type, minutes) == [type |-> type, duration |-> minutes * SecondsPerMinute]

\* Variant: the set ends in a fourth short break.
buildPhasesShortTail(w, b, l) ==
  << Phase("work", w), Phase("break", b),
     Phase("work", w), Phase("break", b),
     Phase("work", w), Phase("break", b),
     Phase("work", w), Phase("break", b) >>

buildPhases(w, b, l) ==
  << Phase("work", w), Phase("break", b),
     Phase("work", w), Phase("break", b),
     Phase("work", w), Phase("break", b),
     Phase("work", w), Phase("longBreak", l) >>

\* phases[i] of the code, whose indices start at 0.
PhaseAt(ps, i) == ps[i + 1]

\* ------------------------------------------------------------------------
\* Countdown Engine
\* ------------------------------------------------------------------------
\* Variant: a resume keeps the target computed by the previous start.
startTimerKeepTarget(s) ==
  IF s.isRunning \/ s.settingsOpen \/ s.milestonePendingReset
    THEN s
    ELSE [logAnalyticsEvent(s, "start_pomodoro") EXCEPT
                   !.isRunning = TRUE,
                   !.appState = APP_STATE.RUNNING,
                   !.msToTarget = IF s.msToTarget = Null
                                    THEN <<s.remaining * MsPerSecond>>
                                    ELSE @,
                   !.intervalId = TRUE,
                   !.intervals = (IF s.intervalId THEN @ - 1 ELSE @) + 1,
                   !.startRemaining = s.remaining,
                   !.sinceStart = 0]

\* Variant: a start is accepted while the settings panel is open.
startTimerInSettings(s) ==
  IF s.isRunning \/ s.milestonePendingReset
    THEN s
    ELSE [logAnalyticsEvent(s, "start_pomodoro") EXCEPT
                   !.isRunning = TRUE,
                   !.appState = APP_STATE.RUNNING,
                   !.msToTarget = <<s.remaining * MsPerSecond>>,
                   !.intervalId = TRUE,
                   !.intervals = (IF s.intervalId THEN @ - 1 ELSE @) + 1,
                   !.startRemaining = s.remaining,
                   !.sinceStart = 0]

\* Variant: a start while the timer runs sets a second interval without
\* clearing the first.
startTimerStacking(s) ==
  IF s.settingsOpen \/ s.milestonePendingReset
    THEN s
    ELSE [logAnalyticsEvent(s, "start_pomodoro") EXCEPT
                   !.isRunning = TRUE,
                   !.appState = APP_STATE.RUNNING,
                   !.msToTarget = <<s.remaining * MsPerSecond>>,
                   !.intervalId = TRUE,
                   !.intervals = @ + 1,
                   !.startRemaining = s.remaining,
                   !.sinceStart = 0]

\* Variant: the start is logged before the guard.
startTimerLogsAlways(s) ==
  IF s.isRunning \/ s.settingsOpen \/ s.milestonePendingReset
    THEN logAnalyticsEvent(s, "start_pomodoro")
    ELSE [logAnalyticsEvent(s, "start_pomodoro") EXCEPT
                   !.isRunning = TRUE,
                   !.appState = APP_STATE.RUNNING,
                   !.msToTarget = <<s.remaining * MsPerSecond>>,
                   !.intervalId = TRUE,
                   !.intervals = (IF s.intervalId THEN @ - 1 ELSE @) + 1,
                   !.startRemaining = s.remaining,
                   !.sinceStart = 0]

startTimer(s) ==
  IF s.isRunning \/ s.settingsOpen \/ s.milestonePendingReset
    THEN s
    ELSE [logAnalyticsEvent(s, "start_pomodoro") EXCEPT
                   !.isRunning = TRUE,
                   !.appState = APP_STATE.RUNNING,
                   !.msToTarget = <<s.remaining * MsPerSecond>>,
                   !.intervalId = TRUE,
                   !.intervals = (IF s.intervalId THEN @ - 1 ELSE @) + 1,
                   !.startRemaining = s.remaining,
                   !.sinceStart = 0]

\* Variant: no early return when the timer is not running.
pauseTimerUnguarded(s) ==
  [s EXCEPT !.remaining = IF s.msToTarget # Null
                            THEN RemainingFromClock(s.msToTarget[1])
                            ELSE @,
            !.isRunning = FALSE,
            !.intervalId = FALSE,
            !.intervals = IF s.intervalId THEN @ - 1 ELSE @,
            !.autoStartTimeoutId = FALSE,
            !.autoStartPending = FALSE,
            !.appState = IF s.settingsOpen THEN APP_STATE.SETTINGS
                                           ELSE APP_STATE.PAUSED,
            !.startRemaining = 0,
            !.sinceStart = 0]

\* Variant: a pause clears the target.
pauseTimerClearsTarget(s) ==
  IF ~s.isRunning /\ ~s.intervalId
    THEN s
    ELSE [s EXCEPT !.remaining = IF s.msToTarget # Null
                                   THEN RemainingFromClock(s.msToTarget[1])
                                   ELSE @,
                   !.msToTarget = Null,
                   !.isRunning = FALSE,
                   !.intervalId = FALSE,
                   !.intervals = IF s.intervalId THEN @ - 1 ELSE @,
                   !.autoStartTimeoutId = FALSE,
                   !.autoStartPending = FALSE,
                   !.appState = IF s.settingsOpen THEN APP_STATE.SETTINGS
                                                  ELSE APP_STATE.PAUSED,
                   !.startRemaining = 0,
                   !.sinceStart = 0]

\* Variant: a pause stops the refresh but leaves the auto-start timeout armed.
pauseTimerKeepsAutoStart(s) ==
  IF ~s.isRunning /\ ~s.intervalId
    THEN s
    ELSE [s EXCEPT !.remaining = IF s.msToTarget # Null
                                   THEN RemainingFromClock(s.msToTarget[1])
                                   ELSE @,
                   !.isRunning = FALSE,
                   !.intervalId = FALSE,
                   !.intervals = IF s.intervalId THEN @ - 1 ELSE @,
                   !.appState = IF s.settingsOpen THEN APP_STATE.SETTINGS
                                                  ELSE APP_STATE.PAUSED,
                   !.startRemaining = 0,
                   !.sinceStart = 0]

pauseTimer(s) ==
  IF ~s.isRunning /\ ~s.intervalId
    THEN s
    ELSE [s EXCEPT !.remaining = IF s.msToTarget # Null
                                   THEN RemainingFromClock(s.msToTarget[1])
                                   ELSE @,
                   !.isRunning = FALSE,
                   !.intervalId = FALSE,
                   !.intervals = IF s.intervalId THEN @ - 1 ELSE @,
                   !.autoStartTimeoutId = FALSE,
                   !.autoStartPending = FALSE,
                   !.appState = IF s.settingsOpen THEN APP_STATE.SETTINGS
                                                  ELSE APP_STATE.PAUSED,
                   !.startRemaining = 0,
                   !.sinceStart = 0]

\* Variant: a reset keeps the target of the last start.
resetCurrentPhaseKeepTarget(s) ==
  LET p == pauseTimer(s)
      ph == PhaseAt(p.phases, p.currentPhaseIndex)
  IN  [p EXCEPT !.currentPhase = ph,
                !.totalSeconds = ph.duration,
                !.remaining = ph.duration]

\* Variant: a reset also clears the statistics of the set.
resetCurrentPhaseClearsStatistics(s) ==
  LET p == pauseTimer(s)
      ph == PhaseAt(p.phases, p.currentPhaseIndex)
  IN  [p EXCEPT !.currentPhase = ph,
                !.totalSeconds = ph.duration,
                !.remaining = ph.duration,
                !.msToTarget = Null,
                !.completedWorkSessions = 0,
                !.skippedNotStartedWorkSessions = 0,
                !.skippedNotCompletedWorkSessions = 0,
                !.totalWorkSeconds = 0]

resetCurrentPhase(s) ==
  LET p == pauseTimer(s)
      ph == PhaseAt(p.phases, p.currentPhaseIndex)
  IN  [p EXCEPT !.currentPhase = ph,
                !.totalSeconds = ph.duration,
                !.remaining = ph.duration,
                !.msToTarget = Null]

\* ------------------------------------------------------------------------
\* Session Statistics Tracker
\* ------------------------------------------------------------------------
\* Variant: a skipped work phase that was never started is not counted.
finalizeCurrentPhaseDropUnstarted(s, completed) ==
  IF s.currentPhase.type = "work"
    THEN LET rawSpent == s.currentPhase.duration - s.remaining
             spent == Max(0, rawSpent)
             effectiveSpent == IF spent > 0 THEN spent
                                            ELSE s.currentPhase.duration
         IN  IF completed
               THEN [logAnalyticsEvent(s, "complete_pomodoro") EXCEPT
                              !.totalWorkSeconds = @ + effectiveSpent,
                              !.completedWorkSessions = @ + 1]
               ELSE IF spent > 0
                 THEN [s EXCEPT !.totalWorkSeconds = @ + spent,
                                !.skippedNotCompletedWorkSessions = @ + 1]
                 ELSE s
    ELSE s

\* Variant: a skip with no elapsed time is recorded as a partial phase.
finalizeCurrentPhaseZeroIsPartial(s, completed) ==
  IF s.currentPhase.type = "work"
    THEN LET rawSpent == s.currentPhase.duration - s.remaining
             spent == Max(0, rawSpent)
             effectiveSpent == IF spent > 0 THEN spent
                                            ELSE s.currentPhase.duration
         IN  IF completed
               THEN [logAnalyticsEvent(s, "complete_pomodoro") EXCEPT
                              !.totalWorkSeconds = @ + effectiveSpent,
                              !.completedWorkSessions = @ + 1]
               ELSE IF spent >= 0
                 THEN [s EXCEPT !.totalWorkSeconds = @ + spent,
                                !.skippedNotCompletedWorkSessions = @ + 1]
                 ELSE [s EXCEPT !.skippedNotStartedWorkSessions = @ + 1]
    ELSE s

\* Variant: a completed phase is credited max(elapsed, duration).
finalizeCurrentPhaseMaxCredit(s, completed) ==
  IF s.currentPhase.type = "work"
    THEN LET rawSpent == s.currentPhase.duration - s.remaining
             spent == Max(0, rawSpent)
             effectiveSpent == Max(spent, s.currentPhase.duration)
         IN  IF completed
               THEN [logAnalyticsEvent(s, "complete_pomodoro") EXCEPT
                              !.totalWorkSeconds = @ + effectiveSpent,
                              !.completedWorkSessions = @ + 1]
               ELSE IF spent > 0
                 THEN [s EXCEPT !.totalWorkSeconds = @ + spent,
                                !.skippedNotCompletedWorkSessions = @ + 1]
                 ELSE [s EXCEPT !.skippedNotStartedWorkSessions = @ + 1]
    ELSE s

\* Variant: a partly run phase that is skipped is credited in full.
finalizeCurrentPhaseFullCredit(s, completed) ==
  IF s.currentPhase.type = "work"
    THEN LET rawSpent == s.currentPhase.duration - s.remaining
             spent == Max(0, rawSpent)
             effectiveSpent == IF spent > 0 THEN spent
                                            ELSE s.currentPhase.duration
         IN  IF completed
               THEN [logAnalyticsEvent(s, "complete_pomodoro") EXCEPT
                              !.totalWorkSeconds = @ + effectiveSpent,
                              !.completedWorkSessions = @ + 1]
               ELSE IF spent > 0
                 THEN [s EXCEPT !.totalWorkSeconds = @ + s.currentPhase.duration,
                                !.skippedNotCompletedWorkSessions = @ + 1]
                 ELSE [s EXCEPT !.skippedNotStartedWorkSessions = @ + 1]
    ELSE s

\* Variant: phases of every kind are counted.
finalizeCurrentPhaseAnyKind(s, completed) ==
  IF TRUE
    THEN LET rawSpent == s.currentPhase.duration - s.remaining
             spent == Max(0, rawSpent)
             effectiveSpent == IF spent > 0 THEN spent
                                            ELSE s.currentPhase.duration
         IN  IF completed
               THEN [logAnalyticsEvent(s, "complete_pomodoro") EXCEPT
                              !.totalWorkSeconds = @ + effectiveSpent,
                              !.completedWorkSessions = @ + 1]
               ELSE IF spent > 0
                 THEN [s EXCEPT !.totalWorkSeconds = @ + spent,
                                !.skippedNotCompletedWorkSessions = @ + 1]
                 ELSE [s EXCEPT !.skippedNotStartedWorkSessions = @ + 1]
    ELSE s

finalizeCurrentPhase(s, completed) ==
  IF s.currentPhase.type = "work"
    THEN LET rawSpent == s.currentPhase.duration - s.remaining
             spent == Max(0, rawSpent)
             effectiveSpent == IF spent > 0 THEN spent
                                            ELSE s.currentPhase.duration
         IN  IF completed
               THEN [logAnalyticsEvent(s, "complete_pomodoro") EXCEPT
                              !.totalWorkSeconds = @ + effectiveSpent,
                              !.completedWorkSessions = @ + 1]
               ELSE IF spent > 0
                 THEN [s EXCEPT !.totalWorkSeconds = @ + spent,
                                !.skippedNotCompletedWorkSessions = @ + 1]
                 ELSE [s EXCEPT !.skippedNotStartedWorkSessions = @ + 1]
    ELSE s

\* ------------------------------------------------------------------------
\* Phase Transition Controller
\* ------------------------------------------------------------------------
showMilestoneModal(s) == [s EXCEPT !.appState = APP_STATE.MILESTONE]

\* Variant: the statistics are finalized after the index has moved on.
moveToNextPhaseLateFinalize(s, autoStart, completed) ==
  LET prevPhaseType == s.currentPhase.type
  IN  IF prevPhaseType = "longBreak"
        THEN showMilestoneModal(
               pauseTimer([s EXCEPT !.milestonePendingReset = TRUE]))
        ELSE IF s.milestonePendingReset
          THEN pauseTimer(s)
          ELSE LET p == pauseTimer(s)
                   idx == (p.currentPhaseIndex + 1) % Len(p.phases)
                   ph == PhaseAt(p.phases, idx)
                   n == finalizeCurrentPhase(
                          [p EXCEPT !.currentPhaseIndex = idx,
                                    !.currentPhase = ph,
                                    !.totalSeconds = ph.duration,
                                    !.remaining = ph.duration,
                                    !.msToTarget = Null],
                          completed)
               IN  IF autoStart
                     THEN [n EXCEPT !.autoStartTimeoutId = TRUE,
                                    !.autoStartPending = TRUE,
                                    !.superseded = FALSE]
                     ELSE n

\* Variant: the long break is left like any other phase, wrapping to phase 0.
moveToNextPhaseWrap(s, autoStart, completed) ==
  LET f == finalizeCurrentPhase(s, completed)
      p == pauseTimer(f)
      idx == (p.currentPhaseIndex + 1) % Len(p.phases)
      ph == PhaseAt(p.phases, idx)
      n == [p EXCEPT !.currentPhaseIndex = idx,
                     !.currentPhase = ph,
                     !.totalSeconds = ph.duration,
                     !.remaining = ph.duration,
                     !.msToTarget = Null]
  IN  IF autoStart
        THEN [n EXCEPT !.autoStartTimeoutId = TRUE,
                       !.autoStartPending = TRUE,
                       !.superseded = FALSE]
        ELSE n

\* Variant: the statistics are finalized between the change of the phase and
\* the reset of the remaining time.
moveToNextPhaseFinalizeBetween(s, autoStart, completed) ==
  LET prevPhaseType == s.currentPhase.type
  IN  IF prevPhaseType = "longBreak"
        THEN showMilestoneModal(
               pauseTimer([s EXCEPT !.milestonePendingReset = TRUE]))
        ELSE IF s.milestonePendingReset
          THEN pauseTimer(s)
          ELSE LET p == pauseTimer(s)
                   idx == (p.currentPhaseIndex + 1) % Len(p.phases)
                   ph == PhaseAt(p.phases, idx)
                   f == finalizeCurrentPhase(
                          [p EXCEPT !.currentPhaseIndex = idx,
                                    !.currentPhase = ph],
                          completed)
                   n == [f EXCEPT !.totalSeconds = ph.duration,
                                  !.remaining = ph.duration,
                                  !.msToTarget = Null]
               IN  IF autoStart
                     THEN [n EXCEPT !.autoStartTimeoutId = TRUE,
                                    !.autoStartPending = TRUE,
                                    !.superseded = FALSE]
                     ELSE n

\* Variant: the long break is never started automatically.
moveToNextPhaseManualLongBreak(s, autoStart, completed) ==
  LET prevPhaseType == s.currentPhase.type
      f == finalizeCurrentPhase(s, completed)
  IN  IF prevPhaseType = "longBreak"
        THEN showMilestoneModal(
               pauseTimer([f EXCEPT !.milestonePendingReset = TRUE]))
        ELSE IF f.milestonePendingReset
          THEN pauseTimer(f)
          ELSE LET p == pauseTimer(f)
                   idx == (p.currentPhaseIndex + 1) % Len(p.phases)
                   ph == PhaseAt(p.phases, idx)
                   n == [p EXCEPT !.currentPhaseIndex = idx,
                                  !.currentPhase = ph,
                                  !.totalSeconds = ph.duration,
                                  !.remaining = ph.duration,
                                  !.msToTarget = Null]
               IN  IF autoStart /\ ph.type # "longBreak"
                     THEN [n EXCEPT !.autoStartTimeoutId = TRUE,
                                    !.autoStartPending = TRUE,
                                    !.superseded = FALSE]
                     ELSE n

moveToNextPhase(s, autoStart, completed) ==
  LET prevPhaseType == s.currentPhase.type
      f == finalizeCurrentPhase(s, completed)
  IN  IF prevPhaseType = "longBreak"
        THEN showMilestoneModal(
               pauseTimer([f EXCEPT !.milestonePendingReset = TRUE]))
        ELSE IF f.milestonePendingReset
          THEN pauseTimer(f)
          ELSE LET p == pauseTimer(f)
                   idx == (p.currentPhaseIndex + 1) % Len(p.phases)
                   ph == PhaseAt(p.phases, idx)
                   n == [p EXCEPT !.currentPhaseIndex = idx,
                                  !.currentPhase = ph,
                                  !.totalSeconds = ph.duration,
                                  !.remaining = ph.duration,
                                  !.msToTarget = Null]
               IN  IF autoStart
                     THEN [n EXCEPT !.autoStartTimeoutId = TRUE,
                                    !.autoStartPending = TRUE,
                                    !.superseded = FALSE]
                     ELSE n

\* part_000 only: the count of completed sets kept in localStorage.
incrementSetsCompleted(s) == [s EXCEPT !.setsCompleted = @ + 1]

\* moveToNextPhase of part_000, which differs from the one of app.js by one
\* statement: leaving the long break counts a completed set.
moveToNextPhaseCounted(s, autoStart, completed) ==
  IF s.currentPhase.type = "longBreak"
    THEN moveToNextPhase(incrementSetsCompleted(s), autoStart, completed)
    ELSE moveToNextPhase(s, autoStart, completed)

\* ------------------------------------------------------------------------
\* Settings Application
\* ------------------------------------------------------------------------
\* clampMinutes of a parseInt result (NaN or an integer).
clampMinutes(v) ==
  IF v = NaN THEN ClampFloor
  ELSE IF v[1] < ClampFloor THEN ClampFloor
  ELSE IF v[1] > ClampCeiling THEN ClampCeiling
  ELSE v[1]

\* Variant: a commit rebuilds the schedule but keeps the remaining time.
applySettingsKeepRemaining(s) ==
  LET w == Max(ApplyWorkFloor, clampMinutes(<<s.draftDurations.work>>))
      b == Max(MIN_BREAK_MINUTES,
               Min(MAX_BREAK_MINUTES,
                   clampMinutes(<<s.draftDurations.shortBreak>>)))
      l == Max(MIN_LONG_BREAK_MINUTES,
               clampMinutes(<<s.draftDurations.longBreak>>))
      ps == buildPhases(w, b, l)
      before == IF s.phaseIndexBeforeSettings < 0
                   \/ s.phaseIndexBeforeSettings >= Len(ps)
                  THEN 0 ELSE s.phaseIndexBeforeSettings
      ph == PhaseAt(ps, before)
      a == [s EXCEPT !.workMinutes = w,
                     !.breakMinutes = b,
                     !.longBreakMinutes = l,
                     !.phaseColors = s.draftPhaseColors,
                     !.phases = ps,
                     !.phaseIndexBeforeSettings = before,
                     !.currentPhaseIndex = before,
                     !.currentPhase = ph,
                     !.totalSeconds = ph.duration,
                     !.settingsOpen = FALSE,
                     !.appState = IF s.wasRunningBeforeSettings
                                    THEN APP_STATE.RUNNING
                                    ELSE APP_STATE.IDLE]
      t == IF a.wasRunningBeforeSettings THEN startTimer(a) ELSE a
  IN  [persistSettings(logAnalyticsEvent(t, "settings_change"))
         EXCEPT !.wasRunningBeforeSettings = FALSE]

\* Variant: a commit goes back to the first phase of the schedule.
applySettingsFromStart(s) ==
  LET w == Max(ApplyWorkFloor, clampMinutes(<<s.draftDurations.work>>))
      b == Max(MIN_BREAK_MINUTES,
               Min(MAX_BREAK_MINUTES,
                   clampMinutes(<<s.draftDurations.shortBreak>>)))
      l == Max(MIN_LONG_BREAK_MINUTES,
               clampMinutes(<<s.draftDurations.longBreak>>))
      ps == buildPhases(w, b, l)
      before == 0
      ph == PhaseAt(ps, before)
      a == [s EXCEPT !.workMinutes = w,
                     !.breakMinutes = b,
                     !.longBreakMinutes = l,
                     !.phaseColors = s.draftPhaseColors,
                     !.phases = ps,
                     !.phaseIndexBeforeSettings = before,
                     !.currentPhaseIndex = before,
                     !.currentPhase = ph,
                     !.totalSeconds = ph.duration,
                     !.remaining = ph.duration,
                     !.msToTarget = Null,
                     !.settingsOpen = FALSE,
                     !.appState = IF s.wasRunningBeforeSettings
                                    THEN APP_STATE.RUNNING
                                    ELSE APP_STATE.IDLE]
      r == resetCurrentPhase(a)
      t == IF r.wasRunningBeforeSettings THEN startTimer(r) ELSE r
  IN  [persistSettings(logAnalyticsEvent(t, "settings_change"))
         EXCEPT !.wasRunningBeforeSettings = FALSE]

applySettings(s) ==
  LET w == Max(ApplyWorkFloor, clampMinutes(<<s.draftDurations.work>>))
      b == Max(MIN_BREAK_MINUTES,
               Min(MAX_BREAK_MINUTES,
                   clampMinutes(<<s.draftDurations.shortBreak>>)))
      l == Max(MIN_LONG_BREAK_MINUTES,
               clampMinutes(<<s.draftDurations.longBreak>>))
      ps == buildPhases(w, b, l)
      before == IF s.phaseIndexBeforeSettings < 0
                   \/ s.phaseIndexBeforeSettings >= Len(ps)
                  THEN 0 ELSE s.phaseIndexBeforeSettings
      ph == PhaseAt(ps, before)
      a == [s EXCEPT !.workMinutes = w,
                     !.breakMinutes = b,
                     !.longBreakMinutes = l,
                     !.phaseColors = s.draftPhaseColors,
                     !.phases = ps,
                     !.phaseIndexBeforeSettings = before,
                     !.currentPhaseIndex = before,
                     !.currentPhase = ph,
                     !.totalSeconds = ph.duration,
                     !.remaining = ph.duration,
                     !.msToTarget = Null,
                     !.settingsOpen = FALSE,
                     !.appState = IF s.wasRunningBeforeSettings
                                    THEN APP_STATE.RUNNING
                                    ELSE APP_STATE.IDLE]
      r == resetCurrentPhase(a)
      t == IF r.wasRunningBeforeSettings THEN startTimer(r) ELSE r
  IN  [persistSettings(logAnalyticsEvent(t, "settings_change"))
         EXCEPT !.wasRunningBeforeSettings = FALSE]

\* ------------------------------------------------------------------------
\* Initial state: no stored settings, defaults in force
\* ------------------------------------------------------------------------
Init ==
  /\ workMinutes = DEFAULT_WORK
  /\ breakMinutes = DEFAULT_BREAK
  /\ longBreakMinutes = DEFAULT_LONG_BREAK
  /\ draftDurations = [work |-> DEFAULT_WORK, shortBreak |-> DEFAULT_BREAK,
                       longBreak |-> DEFAULT_LONG_BREAK]
  /\ phases = buildPhases(DEFAULT_WORK, DEFAULT_BREAK, DEFAULT_LONG_BREAK)
  /\ currentPhaseIndex = 0
  /\ currentPhase = Phase("work", DEFAULT_WORK)
  /\ totalSeconds = DEFAULT_WORK * SecondsPerMinute
  /\ remaining = DEFAULT_WORK * SecondsPerMinute
  /\ isRunning = FALSE
  /\ intervalId = FALSE
  /\ msToTarget = Null
  /\ autoStartTimeoutId = FALSE
  /\ autoStartPending = FALSE
  /\ settingsOpen = FALSE
  /\ milestonePendingReset = FALSE
  /\ appState = APP_STATE.IDLE
  /\ wasRunningBeforeSettings = FALSE
  /\ phaseIndexBeforeSettings = 0
  /\ completedWorkSessions = 0
  /\ skippedNotStartedWorkSessions = 0
  /\ skippedNotCompletedWorkSessions = 0
  /\ totalWorkSeconds = 0
  /\ startRemaining = 0
  /\ sinceStart = 0
  /\ setsAcknowledged = 0
  /\ phaseColors = DefaultPhaseColors
  /\ draftPhaseColors = DefaultPhaseColors
  /\ colorTargetPhase = "work"
  /\ setsCompleted = 0
  /\ storedSettings = NoDocument
  /\ superseded = FALSE
  /\ intervals = 0
  /\ emitted = <<>>

\* ------------------------------------------------------------------------
\* The clock
\* ------------------------------------------------------------------------
\* Distances to the target at which the model reads the clock.
Sampled(s, ms) ==
  /\ ms >= 0 - MaxOvershoot
  /\ \/ ms >= s.totalSeconds * MsPerSecond - Window
     \/ ms <= Window

\* The state after d ms have passed.
elapse(s, d) ==
  [s EXCEPT !.msToTarget = IF s.msToTarget = Null THEN Null
                           ELSE <<s.msToTarget[1] - d>>,
            !.sinceStart = IF s.isRunning THEN @ + d ELSE @]

\* d ms pass.
AdvanceClock(d) ==
  /\ d > 0
  /\ msToTarget # Null => Sampled(State, msToTarget[1] - d)
  /\ Becomes(elapse(Entry, d))

\* The steps the clock can take from the current state: a short step, or a
\* jump to Window ms before the target.
StepsNow ==
  ClockSteps \cup (IF isRunning /\ msToTarget # Null /\ msToTarget[1] > Window
                     THEN {msToTarget[1] - Window} ELSE {})

\* ------------------------------------------------------------------------
\* Timer callbacks
\* ------------------------------------------------------------------------
\* Variant: the callback counts one second per call instead of reading the
\* clock.
intervalCallbackCounting(s) ==
  LET newRemaining == Max(0, s.remaining - 1)
      t == [s EXCEPT !.remaining = newRemaining]
  IN  IF t.remaining <= 0
        THEN moveToNextPhase([t EXCEPT !.intervalId = FALSE,
                                       !.intervals =
                                         IF s.intervalId THEN @ - 1 ELSE @,
                                       !.isRunning = FALSE,
                                       !.startRemaining = 0,
                                       !.sinceStart = 0],
                             TRUE, TRUE)
        ELSE t

\* Variant: an expired phase is left without scheduling the next start.
intervalCallbackNoAutoStart(s) ==
  LET newRemaining == RemainingFromClock(s.msToTarget[1])
      t == [s EXCEPT !.remaining = newRemaining]
  IN  IF t.remaining <= 0
        THEN moveToNextPhase([t EXCEPT !.intervalId = FALSE,
                                       !.intervals =
                                         IF s.intervalId THEN @ - 1 ELSE @,
                                       !.isRunning = FALSE,
                                       !.startRemaining = 0,
                                       !.sinceStart = 0],
                             FALSE, TRUE)
        ELSE t

\* The body of the setInterval callback of startTimer.
intervalCallback(s) ==
  LET newRemaining == RemainingFromClock(s.msToTarget[1])
      t == [s EXCEPT !.remaining = newRemaining]
  IN  IF t.remaining <= 0
        THEN moveToNextPhase([t EXCEPT !.intervalId = FALSE,
                                       !.intervals =
                                         IF s.intervalId THEN @ - 1 ELSE @,
                                       !.isRunning = FALSE,
                                       !.startRemaining = 0,
                                       !.sinceStart = 0],
                             TRUE, TRUE)
        ELSE t

Tick ==
  /\ intervalId
  /\ msToTarget # Null
  /\ intervalCallback(State).totalWorkSeconds <= MaxTotalWorkSeconds
  /\ Becomes(intervalCallback(Entry))

\* The setTimeout callback armed by moveToNextPhase.
AutoStartFire ==
  /\ autoStartPending
  /\ Becomes(startTimer([Entry EXCEPT !.autoStartPending = FALSE,
                                     !.superseded = FALSE]))

\* ------------------------------------------------------------------------
\* User commands
\* ------------------------------------------------------------------------
handleSingleClick(s) ==
  IF s.settingsOpen \/ s.milestonePendingReset THEN s
  ELSE LET u == [s EXCEPT !.superseded = s.autoStartPending]
       IN  IF u.isRunning THEN pauseTimer(u) ELSE startTimer(u)

ClickOverlay == Becomes(handleSingleClick(Entry))

\* Variant: the double click is not guarded.
dblclickHandlerUnguarded(s) == resetCurrentPhase(s)

dblclickHandler(s) ==
  IF s.settingsOpen \/ s.milestonePendingReset THEN s
  ELSE resetCurrentPhase(s)

DblClickOverlay == Becomes(dblclickHandler(Entry))

\* Variant: every skip schedules the start of the phase it enters.
nextButtonHandlerAutoStart(s) ==
  IF s.settingsOpen \/ s.milestonePendingReset THEN s
  ELSE moveToNextPhase(logAnalyticsEvent(s, "phase_skip"), TRUE, FALSE)

nextButtonHandler(s) ==
  IF s.settingsOpen \/ s.milestonePendingReset THEN s
  ELSE moveToNextPhase(logAnalyticsEvent(s, "phase_skip"), s.isRunning,
                       FALSE)

NextButton ==
  /\ nextButtonHandler(State).totalWorkSeconds <= MaxTotalWorkSeconds
  /\ Becomes(nextButtonHandler(Entry))

settingsButtonHandler(s) ==
  IF s.settingsOpen \/ s.milestonePendingReset THEN s
  ELSE LET o == pauseTimer([s EXCEPT
                 !.phaseIndexBeforeSettings = s.currentPhaseIndex,
                 !.settingsOpen = TRUE,
                 !.wasRunningBeforeSettings = s.isRunning,
                 !.superseded = s.autoStartPending])
       IN  [o EXCEPT !.draftDurations =
                        [work |-> o.workMinutes,
                         shortBreak |-> o.breakMinutes,
                         longBreak |-> o.longBreakMinutes],
                     !.draftPhaseColors = o.phaseColors]

SettingsButton == Becomes(settingsButtonHandler(Entry))

\* Variant: the work input writes the live duration as well as the draft.
workInputHandlerLive(s, raw) ==
  IF ~s.settingsOpen THEN s
  ELSE LET c == clampMinutes(raw)
           v == IF c < WorkInputFloor THEN WorkInputFloor ELSE c
       IN  [s EXCEPT !.draftDurations.work = v, !.workMinutes = v]

workInputHandler(s, raw) ==
  IF ~s.settingsOpen THEN s
  ELSE LET c == clampMinutes(raw)
           v == IF c < WorkInputFloor THEN WorkInputFloor ELSE c
       IN  [s EXCEPT !.draftDurations.work = v]

WorkInput(raw) == Becomes(workInputHandler(Entry, raw))

breakInputHandler(s, raw) ==
  IF ~s.settingsOpen THEN s
  ELSE LET c == clampMinutes(raw)
           v == IF c < MIN_BREAK_MINUTES THEN MIN_BREAK_MINUTES
                ELSE IF c > MAX_BREAK_MINUTES THEN MAX_BREAK_MINUTES
                ELSE c
       IN  [s EXCEPT !.draftDurations.shortBreak = v]

BreakInput(raw) == Becomes(breakInputHandler(Entry, raw))

longBreakInputHandler(s, raw) ==
  IF ~s.settingsOpen THEN s
  ELSE LET c == clampMinutes(raw)
           v == IF c < LongBreakInputFloor THEN LongBreakInputFloor ELSE c
       IN  [s EXCEPT !.draftDurations.longBreak = v]

LongBreakInput(raw) ==
  Becomes(longBreakInputHandler(Entry, raw))

\* A tab of the settings panel selects the kind of phase that the palette
\* and the drag handle edit.
PhaseKinds == {"work", "shortBreak", "longBreak"}
activateSettingsPhase(s, kind) == [s EXCEPT !.colorTargetPhase = kind]

PhaseTab(kind) == Becomes(activateSettingsPhase(Entry, kind))

\* A click on a segment of the colour palette.
PaletteColors == {"#ff0000"}
paletteClickHandler(s, color) ==
  IF ~s.settingsOpen THEN s
  ELSE [s EXCEPT !.draftPhaseColors =
          CASE s.colorTargetPhase = "work" -> [@ EXCEPT !.work = color]
            [] s.colorTargetPhase = "shortBreak" ->
                 [@ EXCEPT !.shortBreak = color]
            [] s.colorTargetPhase = "longBreak" ->
                 [@ EXCEPT !.longBreak = color]]

PaletteClick(color) == Becomes(paletteClickHandler(Entry, color))

\* The duration handle dragged, or the ring clicked, at the position of
\* the given minute; both are possible only while the panel is open.
DragMinutes == {3, 60}
updateDraftDurationFromHandle(s, angleMinutes) ==
  LET m == clampMinutes(<<IF angleMinutes = 0 THEN 60 ELSE angleMinutes>>)
      minutes ==
        CASE s.colorTargetPhase = "work" ->
               IF m < WorkInputFloor THEN WorkInputFloor ELSE m
          [] s.colorTargetPhase = "shortBreak" ->
               IF m < MIN_BREAK_MINUTES THEN MIN_BREAK_MINUTES
               ELSE IF m > MAX_BREAK_MINUTES THEN MAX_BREAK_MINUTES
               ELSE m
          [] s.colorTargetPhase = "longBreak" ->
               IF m < LongBreakInputFloor THEN LongBreakInputFloor ELSE m
  IN  [s EXCEPT !.draftDurations =
         CASE s.colorTargetPhase = "work" -> [@ EXCEPT !.work = minutes]
           [] s.colorTargetPhase = "shortBreak" ->
                [@ EXCEPT !.shortBreak = minutes]
           [] s.colorTargetPhase = "longBreak" ->
                [@ EXCEPT !.longBreak = minutes]]

DragHandle(angleMinutes) ==
  /\ settingsOpen
  /\ Becomes(updateDraftDurationFromHandle(Entry, angleMinutes))

\* The back button is displayed only while the settings panel is open.
BackFromSettings ==
  /\ settingsOpen
  /\ Becomes(applySettings(Entry))

\* The OK button of the milestone modal, visible while a milestone is pending.
milestoneOkHandler(s) ==
  LET z == [s EXCEPT !.milestonePendingReset = FALSE,
                     !.completedWorkSessions = 0,
                     !.skippedNotStartedWorkSessions = 0,
                     !.skippedNotCompletedWorkSessions = 0]
      p == pauseTimer(z)
      ph == PhaseAt(p.phases, 0)
  IN  [p EXCEPT !.currentPhaseIndex = 0,
                !.currentPhase = ph,
                !.totalSeconds = ph.duration,
                !.remaining = ph.duration,
                !.appState = APP_STATE.RUNNING,
                !.setsAcknowledged = @ + 1]

MilestoneOk ==
  /\ milestonePendingReset
  /\ setsAcknowledged < MaxSets
  /\ Becomes(milestoneOkHandler(Entry))

\* ------------------------------------------------------------------------
\* Page load
\* ------------------------------------------------------------------------
\* The module-level declarations: every variable of the page at its literal
\* initial value; the stored item outlives the page.
declarations(s) ==
  [s EXCEPT !.workMinutes = DEFAULT_WORK,
            !.breakMinutes = DEFAULT_BREAK,
            !.longBreakMinutes = DEFAULT_LONG_BREAK,
            !.phaseColors = DefaultPhaseColors,
            !.draftPhaseColors = DefaultPhaseColors,
            !.colorTargetPhase = "work",
            !.draftDurations = [work |-> DEFAULT_WORK,
                                shortBreak |-> DEFAULT_BREAK,
                                longBreak |-> DEFAULT_LONG_BREAK],
            !.isRunning = FALSE,
            !.intervalId = FALSE,
            !.intervals = 0,
            !.msToTarget = Null,
            !.autoStartTimeoutId = FALSE,
            !.autoStartPending = FALSE,
            !.settingsOpen = FALSE,
            !.milestonePendingReset = FALSE,
            !.appState = APP_STATE.IDLE,
            !.wasRunningBeforeSettings = FALSE,
            !.phaseIndexBeforeSettings = 0,
            !.completedWorkSessions = 0,
            !.skippedNotStartedWorkSessions = 0,
            !.skippedNotCompletedWorkSessions = 0,
            !.totalWorkSeconds = 0,
            !.startRemaining = 0,
            !.sinceStart = 0,
            !.superseded = FALSE]

\* The script from its first line to the end of its declarations: the
\* stored settings are restored, then the schedule is built from them.
loadPage(s) ==
  LET r == restoreSettingsFromStorage(declarations(s))
      ps == buildPhases(r.workMinutes, r.breakMinutes, r.longBreakMinutes)
  IN  [r EXCEPT !.phases = ps,
                !.currentPhaseIndex = 0,
                !.currentPhase = PhaseAt(ps, 0),
                !.totalSeconds = PhaseAt(ps, 0).duration,
                !.remaining = PhaseAt(ps, 0).duration]

\* The page is loaded (again) with the stored item as it is.
Reload == Becomes(loadPage(Entry))

Next ==
  \/ \E d \in StepsNow : AdvanceClock(d)
  \/ Tick
  \/ AutoStartFire
  \/ ClickOverlay
  \/ DblClickOverlay
  \/ NextButton
  \/ SettingsButton
  \/ BackFromSettings
  \/ MilestoneOk

Spec == Init /\ [][Next]_vars

\* ------------------------------------------------------------------------
\* applySettings as a function of the draft: the settings panel is open with
\* a draft drawn from the Draft*Values, and is committed and reopened.
\* ------------------------------------------------------------------------
InitCommit ==
  /\ workMinutes = DEFAULT_WORK
  /\ breakMinutes = DEFAULT_BREAK
  /\ longBreakMinutes = DEFAULT_LONG_BREAK
  /\ draftDurations \in [work : DraftWorkValues,
                          shortBreak : DraftBreakValues,
                          longBreak : DraftLongBreakValues]
  /\ phases = buildPhases(DEFAULT_WORK, DEFAULT_BREAK, DEFAULT_LONG_BREAK)
  /\ currentPhaseIndex = 0
  /\ currentPhase = Phase("work", DEFAULT_WORK)
  /\ totalSeconds = DEFAULT_WORK * SecondsPerMinute
  /\ remaining = DEFAULT_WORK * SecondsPerMinute
  /\ isRunning = FALSE
  /\ intervalId = FALSE
  /\ msToTarget = Null
  /\ autoStartTimeoutId = FALSE
  /\ autoStartPending = FALSE
  /\ settingsOpen = TRUE
  /\ milestonePendingReset = FALSE
  /\ appState = APP_STATE.IDLE
  /\ wasRunningBeforeSettings = FALSE
  /\ phaseIndexBeforeSettings = 0
  /\ completedWorkSessions = 0
  /\ skippedNotStartedWorkSessions = 0
  /\ skippedNotCompletedWorkSessions = 0
  /\ totalWorkSeconds = 0
  /\ startRemaining = 0
  /\ sinceStart = 0
  /\ setsAcknowledged = 0
  /\ phaseColors = DefaultPhaseColors
  /\ draftPhaseColors = DefaultPhaseColors
  /\ colorTargetPhase = "work"
  /\ setsCompleted = 0
  /\ storedSettings = NoDocument
  /\ superseded = FALSE
  /\ intervals = 0
  /\ emitted = <<>>

NextCommit ==
  \/ BackFromSettings
  \/ SettingsButton

SpecCommit == InitCommit /\ [][NextCommit]_vars

\* ------------------------------------------------------------------------
\* The settings panel with edits of the draft: the countdown is started,
\* paused and left to expire, and the durations are changed in between.
\* ------------------------------------------------------------------------
NextSettings ==
  \/ \E d \in StepsNow : AdvanceClock(d)
  \/ Tick
  \/ AutoStartFire
  \/ ClickOverlay
  \/ SettingsButton
  \/ \E raw \in WorkInputValues : WorkInput(raw)
  \/ \E raw \in BreakInputValues : BreakInput(raw)
  \/ \E raw \in LongBreakInputValues : LongBreakInput(raw)
  \/ BackFromSettings

SpecSettings == Init /\ [][NextSettings]_vars

\* ------------------------------------------------------------------------
\* The draft of the settings panel: the panel is opened, durations and
\* colours are edited, and the draft is committed; phases are skipped in
\* between and the timer stays stopped.
\* ------------------------------------------------------------------------
NextDraft ==
  \/ SettingsButton
  \/ \E raw \in WorkInputValues : WorkInput(raw)
  \/ \E raw \in BreakInputValues : BreakInput(raw)
  \/ \E raw \in LongBreakInputValues : LongBreakInput(raw)
  \/ \E kind \in PhaseKinds : PhaseTab(kind)
  \/ \E color \in PaletteColors : PaletteClick(color)
  \/ \E angleMinutes \in DragMinutes : DragHandle(angleMinutes)
  \/ NextButton
  \/ BackFromSettings

SpecDraft == Init /\ [][NextDraft]_vars

\* ------------------------------------------------------------------------
\* moveToNextPhase as a function of the state it is called in: the timer is
\* stopped in a phase and at a remaining time drawn below, and the function
\* is called with every pair of arguments, again and again.
\* ------------------------------------------------------------------------
RemainingValues == {0, 1, 150, 299, 300, 750, 899, 900, 1499, 1500}
\* Calls of moveToNextPhase of part_000 are explored up to this count of sets.
MaxSetsCompleted == 2

InitAdvance ==
  /\ workMinutes = DEFAULT_WORK
  /\ breakMinutes = DEFAULT_BREAK
  /\ longBreakMinutes = DEFAULT_LONG_BREAK
  /\ draftDurations = [work |-> DEFAULT_WORK, shortBreak |-> DEFAULT_BREAK,
                       longBreak |-> DEFAULT_LONG_BREAK]
  /\ phases = buildPhases(DEFAULT_WORK, DEFAULT_BREAK, DEFAULT_LONG_BREAK)
  /\ currentPhaseIndex \in 0..7
  /\ currentPhase = PhaseAt(phases, currentPhaseIndex)
  /\ totalSeconds = currentPhase.duration
  /\ remaining \in {r \in RemainingValues : r <= currentPhase.duration}
  /\ isRunning = FALSE
  /\ intervalId = FALSE
  /\ msToTarget = Null
  /\ autoStartTimeoutId = FALSE
  /\ autoStartPending = FALSE
  /\ settingsOpen = FALSE
  /\ milestonePendingReset = FALSE
  /\ appState = IF remaining = currentPhase.duration THEN APP_STATE.IDLE
                ELSE APP_STATE.PAUSED
  /\ wasRunningBeforeSettings = FALSE
  /\ phaseIndexBeforeSettings = 0
  /\ completedWorkSessions = 0
  /\ skippedNotStartedWorkSessions = 0
  /\ skippedNotCompletedWorkSessions = 0
  /\ totalWorkSeconds = 0
  /\ startRemaining = 0
  /\ sinceStart = 0
  /\ setsAcknowledged = 0
  /\ phaseColors = DefaultPhaseColors
  /\ draftPhaseColors = DefaultPhaseColors
  /\ colorTargetPhase = "work"
  /\ setsCompleted = 0
  /\ storedSettings = NoDocument
  /\ superseded = FALSE
  /\ intervals = 0
  /\ emitted = <<>>

\* moveToNextPhase(autoStart, completed) of app.js.
Advance(autoStart, completed) ==
  Becomes(moveToNextPhase(Entry, autoStart, completed))

\* moveToNextPhase(autoStart, completed) of part_000.
AdvanceCounted(autoStart, completed) ==
  /\ moveToNextPhaseCounted(State, autoStart, completed).setsCompleted
       <= MaxSetsCompleted
  /\ Becomes(moveToNextPhaseCounted(Entry, autoStart, completed))

NextAdvance ==
  \/ \E autoStart, completed \in BOOLEAN : Advance(autoStart, completed)
  \/ \E autoStart, completed \in BOOLEAN :
        AdvanceCounted(autoStart, completed)

SpecAdvance == InitAdvance /\ [][NextAdvance]_vars

\* ------------------------------------------------------------------------
\* The timer left to itself: it is started once and no further command is
\* given; the clock advances, the refresh callback and the auto-start
\* timeout run when they are due.
\* ------------------------------------------------------------------------
\* The first click on the overlay.
FirstStart ==
  /\ appState = APP_STATE.IDLE
  /\ ~autoStartPending
  /\ currentPhaseIndex = 0
  /\ ClickOverlay

\* The refresh callback, explored through the whole set.
TickOfSet ==
  /\ intervalId
  /\ msToTarget # Null
  /\ Becomes(intervalCallback(Entry))

NextUnattended ==
  \/ FirstStart
  \/ \E d \in StepsNow : AdvanceClock(d)
  \/ TickOfSet
  \/ AutoStartFire

\* setInterval and setTimeout callbacks that are due are eventually run.
SpecUnattended ==
  /\ Init
  /\ [][NextUnattended]_vars
  /\ WF_vars(TickOfSet)
  /\ WF_vars(AutoStartFire)
  /\ WF_vars(\E d \in StepsNow : AdvanceClock(d))

\* ------------------------------------------------------------------------
\* Page load as a function of the stored item: the item is drawn from
\* StoredDocuments and the page is loaded from it.
\* ------------------------------------------------------------------------
InitRestore ==
  /\ workMinutes = DEFAULT_WORK
  /\ breakMinutes = DEFAULT_BREAK
  /\ longBreakMinutes = DEFAULT_LONG_BREAK
  /\ draftDurations = [work |-> DEFAULT_WORK, shortBreak |-> DEFAULT_BREAK,
                       longBreak |-> DEFAULT_LONG_BREAK]
  /\ phases = buildPhases(DEFAULT_WORK, DEFAULT_BREAK, DEFAULT_LONG_BREAK)
  /\ currentPhaseIndex = 0
  /\ currentPhase = Phase("work", DEFAULT_WORK)
  /\ totalSeconds = DEFAULT_WORK * SecondsPerMinute
  /\ remaining = DEFAULT_WORK * SecondsPerMinute
  /\ isRunning = FALSE
  /\ intervalId = FALSE
  /\ msToTarget = Null
  /\ autoStartTimeoutId = FALSE
  /\ autoStartPending = FALSE
  /\ settingsOpen = FALSE
  /\ milestonePendingReset = FALSE
  /\ appState = APP_STATE.IDLE
  /\ wasRunningBeforeSettings = FALSE
  /\ phaseIndexBeforeSettings = 0
  /\ completedWorkSessions = 0
  /\ skippedNotStartedWorkSessions = 0
  /\ skippedNotCompletedWorkSessions = 0
  /\ totalWorkSeconds = 0
  /\ startRemaining = 0
  /\ sinceStart = 0
  /\ setsAcknowledged = 0
  /\ phaseColors = DefaultPhaseColors
  /\ draftPhaseColors = DefaultPhaseColors
  /\ colorTargetPhase = "work"
  /\ setsCompleted = 0
  /\ storedSettings \in StoredDocuments
  /\ superseded = FALSE
  /\ intervals = 0
  /\ emitted = <<>>

NextRestore == Reload

SpecRestore == InitRestore /\ [][NextRestore]_vars

\* ------------------------------------------------------------------------
\* The configuration over page loads: the page is loaded from the stored
\* item, the settings panel is opened, edited and committed, which stores the
\* committed configuration, and the page is loaded again.
\* ------------------------------------------------------------------------
NextPersist ==
  \/ Reload
  \/ SettingsButton
  \/ \E raw \in WorkInputValues : WorkInput(raw)
  \/ \E raw \in BreakInputValues : BreakInput(raw)
  \/ \E raw \in LongBreakInputValues : LongBreakInput(raw)
  \/ BackFromSettings

SpecPersist == InitRestore /\ [][NextPersist]_vars

\* ========================================================================
\* Properties
\* ========================================================================
Pattern ==
  <<"work", "break", "work", "break", "work", "break", "work", "longBreak">>

MinutesOfKind(type) ==
  CASE type = "work" -> workMinutes
    [] type = "break" -> breakMinutes
    [] type = "longBreak" -> longBreakMinutes

RECURSIVE SumWorkDurations(_)
SumWorkDurations(ps) ==
  IF ps = <<>> THEN 0
  ELSE (IF Head(ps).type = "work" THEN Head(ps).duration ELSE 0)
       + SumWorkDurations(Tail(ps))

\* C1: for every triple of live durations the schedule has exactly 8 phases
\* in the order Work, Break, Work, Break, Work, Break, Work, LongBreak, each
\* lasting its kind's minutes * 60 seconds, so the Work phases sum to
\* 4 * workMinutes * 60.
C1_BuildPhases ==
  /\ Len(phases) = 8
  /\ \A i \in 1..8 :
        /\ phases[i].type = Pattern[i]
        /\ phases[i].duration = MinutesOfKind(Pattern[i]) * 60
  /\ SumWorkDurations(phases) = 4 * workMinutes * 60

\* A schedule rebuilt by a commit from durations that are all non-default.
C1_Witness ==
  /\ ~settingsOpen
  /\ workMinutes = 60
  /\ breakMinutes = 1
  /\ longBreakMinutes = 5
  /\ phases[8].duration = 300

WholeSecond(ms) == ms % MsPerSecond = 0

\* C2: when the timer was started with remaining = R and exactly k whole
\* seconds (k < R) have passed since, a reading of the clock yields R - k,
\* by the refresh callback and by pauseTimer alike, whatever number of
\* refresh callbacks ran in between.
C2_WallClockAccuracy ==
  [][ (isRunning /\ WholeSecond(sinceStart)
         /\ sinceStart \div MsPerSecond < startRemaining)
      => /\ pauseTimer(State).remaining
              = startRemaining - sinceStart \div MsPerSecond
         /\ Tick => remaining'
                      = startRemaining - sinceStart \div MsPerSecond ]_vars

\* One second after the start the refresh callback has run and shows R - 1.
C2_Witness ==
  /\ isRunning
  /\ sinceStart = 1000
  /\ startRemaining = 1500
  /\ remaining = 1499

StatSum ==
  completedWorkSessions + skippedNotStartedWorkSessions
    + skippedNotCompletedWorkSessions

\* A step that leaves a Work phase, and one that acknowledges a milestone.
LeavesWorkPhase ==
  currentPhase.type = "work" /\ currentPhaseIndex' # currentPhaseIndex
AcknowledgesMilestone == milestonePendingReset /\ ~milestonePendingReset'

\* C3: the three counters together count the Work phases left since the last
\* milestone acknowledgement: their sum is 0 initially, returns to 0 at an
\* acknowledgement, grows by one in every step that leaves a Work phase
\* and is unchanged by every other step.
C3_StatisticsCount ==
  [][ IF AcknowledgesMilestone THEN StatSum' = 0
      ELSE IF LeavesWorkPhase THEN StatSum' = StatSum + 1
      ELSE StatSum' = StatSum ]_vars

\* Three Work phases left, one in each way.
C3_Witness ==
  /\ completedWorkSessions = 1
  /\ skippedNotStartedWorkSessions = 1
  /\ skippedNotCompletedWorkSessions = 1
  /\ currentPhaseIndex = 5

\* C4: immediately after the milestone is acknowledged all four statistics
\* fields are 0 and currentPhaseIndex is 0.
C4_MilestoneReset ==
  [][ MilestoneOk =>
        /\ completedWorkSessions' = 0
        /\ skippedNotStartedWorkSessions' = 0
        /\ skippedNotCompletedWorkSessions' = 0
        /\ totalWorkSeconds' = 0
        /\ currentPhaseIndex' = 0 ]_vars

\* The refresh callback finds the countdown expired.
CompletesByTick ==
  /\ msToTarget # Null
  /\ RemainingFromClock(msToTarget[1]) = 0
  /\ Tick

\* A step that leaves the long break, by expiry or by the next button.
LeavesLongBreak ==
  /\ currentPhase.type = "longBreak"
  /\ ~milestonePendingReset
  /\ CompletesByTick \/ (~settingsOpen /\ NextButton)

\* C5: leaving the long break makes the milestone pending, stops the engine
\* and keeps currentPhaseIndex at 7; while the milestone is pending the
\* status is MILESTONE, the engine is stopped and the index is 7; the index
\* leaves 7 only in the acknowledgement step, which sets it to 0.
C5_MilestonePending ==
  [][ /\ LeavesLongBreak => milestonePendingReset'
      /\ milestonePendingReset' =>
            /\ currentPhaseIndex' = 7
            /\ appState' = APP_STATE.MILESTONE
            /\ ~isRunning'
            /\ ~intervalId'
      /\ (currentPhaseIndex = 7 /\ currentPhaseIndex' # 7) =>
            /\ MilestoneOk
            /\ currentPhaseIndex' = 0 ]_vars

\* The long break expired by itself and the milestone is pending.
C5_Witness ==
  /\ milestonePendingReset
  /\ currentPhaseIndex = 7
  /\ remaining = 0
  /\ appState = APP_STATE.MILESTONE

C7_PauseIdempotent ==
  LET p == pauseTimer(State)
  IN  /\ pauseTimer(p) = p
      /\ \A d \in ClockSteps :
            /\ pauseTimer(elapse(p, d)) = elapse(p, d)
            /\ pauseTimer(elapse(p, d)).remaining = p.remaining

\* Paused, and since then the clock has moved so far that recomputing from
\* the target would give another remaining time.
C7_Witness ==
  /\ ~isRunning
  /\ appState = APP_STATE.PAUSED
  /\ msToTarget # Null
  /\ remaining = 1500
  /\ RemainingFromClock(msToTarget[1]) = 1499

\* The clock moves.
ClockMoves == \E d \in StepsNow : AdvanceClock(d)

\* C8: while the timer is not running the passage of time leaves remaining
\* unchanged, and a start from remaining = r sets the target r seconds after
\* the current clock reading and leaves remaining at r.
C8_ResumePreservesRemaining ==
  [][ /\ (~isRunning /\ ClockMoves) => remaining' = remaining
      /\ (~isRunning /\ isRunning' /\ (ClickOverlay \/ AutoStartFire)) =>
            /\ remaining' = remaining
            /\ msToTarget' = <<remaining * MsPerSecond>> ]_vars

\* Resumed in the middle of a phase: the target is r seconds ahead.
C8_Witness ==
  /\ isRunning
  /\ sinceStart = 0
  /\ startRemaining = 1499
  /\ remaining = 1499
  /\ msToTarget = <<1499000>>

\* C9: when a Work phase expires (advance with completed = true at
\* remaining 0), completedWorkSessions grows by 1, totalWorkSeconds by the
\* full duration of the phase (1500 with the defaults), the index moves to
\* (index + 1) mod 8, remaining is the full duration of the new phase and
\* the target is cleared.
C9_CompletedWorkPhase ==
  [][ (currentPhase.type = "work" /\ CompletesByTick) =>
        /\ completedWorkSessions' = completedWorkSessions + 1
        /\ totalWorkSeconds' = totalWorkSeconds + currentPhase.duration
        /\ workMinutes = DEFAULT_WORK =>
              totalWorkSeconds' = totalWorkSeconds + 1500
        /\ skippedNotStartedWorkSessions' = skippedNotStartedWorkSessions
        /\ skippedNotCompletedWorkSessions'
             = skippedNotCompletedWorkSessions
        /\ currentPhaseIndex' = (currentPhaseIndex + 1) % 8
        /\ remaining' = PhaseAt(phases, currentPhaseIndex').duration
        /\ msToTarget' = Null ]_vars

\* Phase 0 has expired: one completed phase, 1500 s, now in the short break.
C9_Witness ==
  /\ completedWorkSessions = 1
  /\ totalWorkSeconds = 1500
  /\ currentPhaseIndex = 1
  /\ currentPhase.type = "break"
  /\ remaining = 300
  /\ msToTarget = Null

\* C10: skipping a Work phase while remaining equals its full duration,
\* running or not, adds 1 to skippedNotStartedWorkSessions and leaves
\* totalWorkSeconds and the other two counters unchanged.
C10_SkipUnstarted ==
  [][ (/\ ~settingsOpen
       /\ ~milestonePendingReset
       /\ currentPhase.type = "work"
       /\ remaining = currentPhase.duration
       /\ NextButton) =>
        /\ skippedNotStartedWorkSessions' = skippedNotStartedWorkSessions + 1
        /\ totalWorkSeconds' = totalWorkSeconds
        /\ completedWorkSessions' = completedWorkSessions
        /\ skippedNotCompletedWorkSessions'
             = skippedNotCompletedWorkSessions ]_vars

\* Phase 0 was skipped while running, right after the start.
C10_Witness ==
  /\ skippedNotStartedWorkSessions = 1
  /\ totalWorkSeconds = 0
  /\ completedWorkSessions = 0
  /\ skippedNotCompletedWorkSessions = 0
  /\ currentPhaseIndex = 1
  /\ autoStartPending

\* A call of startTimer returns at its first line.
StartRefused == isRunning \/ settingsOpen \/ milestonePendingReset

\* C11: startTimer is a no-op when the timer is running, when the settings
\* panel is open and when a milestone is pending: it changes nothing, and an
\* auto-start timeout firing in such a state leaves the target, remaining,
\* the refresh interval, the running flag and the status as they were.
C11_StartNoOp ==
  [][ /\ StartRefused => startTimer(State) = State
      /\ (StartRefused /\ AutoStartFire) =>
            /\ msToTarget' = msToTarget
            /\ remaining' = remaining
            /\ intervalId' = intervalId
            /\ isRunning' = isRunning
            /\ appState' = appState ]_vars

\* The auto-start timeout has fired while the settings panel was open, and
\* the timer did not start.
C11_Witness ==
  /\ settingsOpen
  /\ autoStartTimeoutId
  /\ ~autoStartPending
  /\ ~isRunning
  /\ ~intervalId
  /\ msToTarget = Null

\* C12 as stated: the target is non-null exactly while the timer runs.
C12_TargetIffRunning == (msToTarget # Null) <=> isRunning

\* C12, amended: a running timer has a target; a pause and a milestone
\* acknowledgement leave the target as it was (non-null after a pause), and
\* only an advance to another phase, a reset of the current phase and a
\* settings commit that does not restart the timer leave it null.
C12_TargetWhileRunning ==
  [][ /\ isRunning' => msToTarget' # Null
      /\ (isRunning /\ ~settingsOpen /\ ~milestonePendingReset
             /\ ClickOverlay) =>
            /\ msToTarget' = msToTarget
            /\ msToTarget' # Null
      /\ (milestonePendingReset /\ MilestoneOk) => msToTarget' = msToTarget
      /\ (~milestonePendingReset
             /\ currentPhaseIndex' # currentPhaseIndex) => msToTarget' = Null
      /\ (~settingsOpen /\ ~milestonePendingReset /\ DblClickOverlay) =>
            msToTarget' = Null
      /\ (settingsOpen /\ ~wasRunningBeforeSettings /\ BackFromSettings) =>
            msToTarget' = Null ]_vars

\* Paused after one second of phase 0: the target of the start is still set.
C12_Witness ==
  /\ ~isRunning
  /\ ~intervalId
  /\ appState = APP_STATE.PAUSED
  /\ currentPhaseIndex = 0
  /\ remaining = 1499
  /\ msToTarget # Null

C14_NoGhostStart ==
  [][ (superseded /\ ~isRunning /\ AutoStartFire) => ~isRunning' ]_vars

\* C15: a manual pause (a click on the overlay of the running timer) stops
\* the refresh interval and cancels the auto-start timeout, pending or not;
\* so does every call of pauseTimer that passes its first line.
C15_PauseCancelsAutoStart ==
  [][ /\ (isRunning \/ intervalId) =>
            /\ ~pauseTimer(State).autoStartPending
            /\ ~pauseTimer(State).autoStartTimeoutId
            /\ ~pauseTimer(State).intervalId
      /\ (isRunning /\ ~settingsOpen /\ ~milestonePendingReset
             /\ ClickOverlay) =>
            /\ ~autoStartPending'
            /\ ~autoStartTimeoutId'
            /\ ~intervalId'
            /\ ~isRunning' ]_vars

\* Paused by a click while the auto-start timeout was pending: the timeout
\* is no longer pending.
C15_Witness ==
  /\ superseded
  /\ ~autoStartPending
  /\ ~autoStartTimeoutId
  /\ ~isRunning
  /\ ~intervalId
  /\ appState = APP_STATE.PAUSED
  /\ msToTarget # Null

\* C16: opening the settings records the current phase index and whether
\* the timer runs, and neither changes while the panel is open; the commit
\* rebuilds the schedule from the committed durations, stays on that phase
\* (phase 0 if the recorded index is out of range), sets remaining to the
\* full new duration of that phase, closes the panel and leaves the timer
\* running if and only if it ran when the panel was opened.
C16_CommitRestoresPhase ==
  [][ /\ (~settingsOpen /\ settingsOpen') =>
            /\ phaseIndexBeforeSettings' = currentPhaseIndex
            /\ wasRunningBeforeSettings' = isRunning
      /\ (settingsOpen /\ settingsOpen') =>
            /\ phaseIndexBeforeSettings' = phaseIndexBeforeSettings
            /\ wasRunningBeforeSettings' = wasRunningBeforeSettings
            /\ currentPhaseIndex' = currentPhaseIndex
      /\ settingsOpen =>
            /\ phaseIndexBeforeSettings = currentPhaseIndex
            /\ applySettings([State EXCEPT !.phaseIndexBeforeSettings = 8])
                  .currentPhaseIndex = 0
      /\ (settingsOpen /\ BackFromSettings) =>
            /\ phases' = buildPhases(workMinutes', breakMinutes',
                                     longBreakMinutes')
            /\ currentPhaseIndex' = phaseIndexBeforeSettings
            /\ currentPhase' = PhaseAt(phases', currentPhaseIndex')
            /\ remaining' = currentPhase'.duration
            /\ ~settingsOpen'
            /\ isRunning' <=> wasRunningBeforeSettings ]_vars

\* Committed during the running short break of phase 1 with the break
\* shortened to 3 minutes: running again in phase 1 with 180 s to go.
C16_Witness ==
  /\ ~settingsOpen
  /\ currentPhaseIndex = 1
  /\ breakMinutes = 3
  /\ isRunning
  /\ remaining = 180
  /\ msToTarget = <<180000>>
  /\ sinceStart = 0

\* C17: the acknowledgement of the milestone ends the pending milestone and
\* leaves the status IDLE.
C17_AcknowledgedIsIdle ==
  [][ (milestonePendingReset /\ MilestoneOk) =>
        /\ ~milestonePendingReset'
        /\ appState' = APP_STATE.IDLE ]_vars

\* C18: a reset of the current phase (double click) stops a running timer,
\* sets remaining to the full duration of the current phase, clears the
\* target and leaves currentPhaseIndex unchanged.
C18_ResetCurrentPhase ==
  [][ (~settingsOpen /\ ~milestonePendingReset /\ DblClickOverlay) =>
        /\ ~isRunning'
        /\ ~intervalId'
        /\ isRunning => appState' = APP_STATE.PAUSED
        /\ remaining' = PhaseAt(phases, currentPhaseIndex).duration
        /\ msToTarget' = Null
        /\ currentPhaseIndex' = currentPhaseIndex
        /\ currentPhase' = currentPhase ]_vars

\* Phase 0 of the first set was started and then reset.
C18_Witness ==
  /\ currentPhaseIndex = 0
  /\ setsAcknowledged = 0
  /\ storedSettings.kind = "none"
  /\ appState = APP_STATE.PAUSED
  /\ ~isRunning
  /\ remaining = 1500
  /\ msToTarget = Null

\* C19 as stated: with the key break and without the key shortBreak the
\* value of break becomes the live shortBreak colour; with both keys
\* shortBreak is kept; the live map never has the key break.
C19_LegacyBreakKey ==
  [][ (storedSettings.kind = "object" /\ storedSettings.phaseColors.isObject
         /\ Reload) =>
        LET pc == storedSettings.phaseColors
        IN  /\ (pc.break # NoKey /\ pc.shortBreak = NoKey) =>
                  phaseColors'.shortBreak = pc.break
            /\ (pc.break # NoKey /\ pc.shortBreak # NoKey) =>
                  phaseColors'.shortBreak = pc.shortBreak
            /\ phaseColors'.break = NoKey ]_vars

\* C19, amended: a non-empty break colour becomes the live shortBreak colour
\* when shortBreak is missing or empty; a non-empty shortBreak is kept; an
\* empty break colour is dropped without being migrated, so that shortBreak
\* is the stored one if there is one and the default otherwise; the live
\* map never has the key break.
C19_LegacyBreakKeyNonEmpty ==
  [][ (storedSettings.kind = "object" /\ storedSettings.phaseColors.isObject
         /\ Reload) =>
        LET pc == storedSettings.phaseColors
        IN  /\ (Truthy(pc.break) /\ ~Truthy(pc.shortBreak)) =>
                  phaseColors'.shortBreak = pc.break
            /\ Truthy(pc.shortBreak) =>
                  phaseColors'.shortBreak = pc.shortBreak
            /\ (~Truthy(pc.break) /\ pc.shortBreak = "") =>
                  phaseColors'.shortBreak = ""
            /\ (~Truthy(pc.break) /\ pc.shortBreak = NoKey) =>
                  phaseColors'.shortBreak = breakDefaultColor
            /\ phaseColors'.break = NoKey ]_vars

\* Loaded from a document with the legacy key only.
C19_Witness ==
  /\ storedSettings.phaseColors.break = "#111111"
  /\ storedSettings.phaseColors.shortBreak = NoKey
  /\ phaseColors.shortBreak = "#111111"
  /\ phaseColors.break = NoKey
  /\ draftPhaseColors = phaseColors

Elapsed == Max(0, currentPhase.duration - remaining)

\* A call of moveToNextPhase with the given value of completed.
AdvanceWith(completed) ==
  \E autoStart \in BOOLEAN :
    Advance(autoStart, completed) \/ AdvanceCounted(autoStart, completed)

C22_SkippedPartial ==
  [][ (currentPhase.type = "work" /\ Elapsed > 0 /\ AdvanceWith(FALSE)) =>
        /\ skippedNotCompletedWorkSessions'
             = skippedNotCompletedWorkSessions + 1
        /\ totalWorkSeconds' = totalWorkSeconds + Elapsed
        /\ completedWorkSessions' = completedWorkSessions
        /\ skippedNotStartedWorkSessions'
             = skippedNotStartedWorkSessions ]_vars

\* A Work phase skipped half way.
C22_Witness ==
  /\ skippedNotCompletedWorkSessions = 1
  /\ totalWorkSeconds = 750
  /\ StatSum = 1

\* C23: skipping a running Work phase stops the countdown and finalizes the
\* statistics with the remaining time the wall clock gives at the skip: a
\* phase of which at least one second has passed is recorded as a partial
\* skip with that elapsed time, whether or not a refresh has run since.
C23_SkipKeepsElapsed ==
  [][ (/\ isRunning
       /\ ~settingsOpen
       /\ ~milestonePendingReset
       /\ currentPhase.type = "work"
       /\ msToTarget # Null
       /\ NextButton) =>
        LET atExit == RemainingFromClock(msToTarget[1])
            elapsedAtExit == Max(0, currentPhase.duration - atExit)
        IN  /\ ~isRunning'
            /\ ~intervalId'
            /\ elapsedAtExit > 0 =>
                 /\ skippedNotCompletedWorkSessions'
                      = skippedNotCompletedWorkSessions + 1
                 /\ totalWorkSeconds' = totalWorkSeconds + elapsedAtExit
      ]_vars

\* C24: a refresh or a skip in a Break or LongBreak phase, which is how such
\* a phase is left, leaves the four statistics unchanged.
C24_BreaksDoNotCount ==
  [][ (currentPhase.type # "work" /\ (Tick \/ NextButton)) =>
        /\ completedWorkSessions' = completedWorkSessions
        /\ skippedNotStartedWorkSessions' = skippedNotStartedWorkSessions
        /\ skippedNotCompletedWorkSessions'
             = skippedNotCompletedWorkSessions
        /\ totalWorkSeconds' = totalWorkSeconds ]_vars

\* Phase 0 has expired and the short break after it has been left, by a skip
\* or by its own expiry.
C24_Witness ==
  /\ currentPhaseIndex = 2
  /\ completedWorkSessions = 1
  /\ totalWorkSeconds = 1500
  /\ StatSum = 1

\* C25: no step other than a milestone acknowledgement decreases any of the
\* four statistics; totalWorkSeconds never decreases between two
\* acknowledgements.
C25_OnlyAcknowledgementResets ==
  [][ ~AcknowledgesMilestone =>
        /\ completedWorkSessions' >= completedWorkSessions
        /\ skippedNotStartedWorkSessions' >= skippedNotStartedWorkSessions
        /\ skippedNotCompletedWorkSessions'
             >= skippedNotCompletedWorkSessions
        /\ totalWorkSeconds' >= totalWorkSeconds ]_vars

\* The settings panel has been opened in the break that follows a Work phase
\* skipped part way: the statistics of the skipped phase are still there.
C25_Witness ==
  /\ settingsOpen
  /\ currentPhaseIndex = 1
  /\ skippedNotCompletedWorkSessions = 1
  /\ totalWorkSeconds > 0
  /\ StatSum = 1

\* C26: a skip while the timer is not running never adds to
\* completedWorkSessions and schedules no start of the phase it enters.
C26_SkipWhileStopped ==
  [][ (/\ ~isRunning
       /\ ~settingsOpen
       /\ ~milestonePendingReset
       /\ NextButton) =>
        /\ completedWorkSessions' = completedWorkSessions
        /\ autoStartPending' = autoStartPending
        /\ autoStartTimeoutId' = autoStartTimeoutId
        /\ ~isRunning'
        /\ currentPhaseIndex # 7 =>
             /\ currentPhaseIndex' = currentPhaseIndex + 1
             /\ remaining' = PhaseAt(phases, currentPhaseIndex').duration
      ]_vars

\* Phase 0 was skipped before it was ever started.
C26_Witness ==
  /\ currentPhaseIndex = 1
  /\ skippedNotStartedWorkSessions = 1
  /\ StatSum = 1
  /\ ~isRunning
  /\ ~autoStartPending
  /\ ~autoStartTimeoutId
  /\ msToTarget = Null

C28_FinalizeBeforeAdvance ==
  [][ \A completed \in BOOLEAN :
        AdvanceWith(completed) =>
          LET d == currentPhase.duration
              e == Max(0, d - remaining)
              dCompleted == completedWorkSessions' - completedWorkSessions
              dUnstarted == skippedNotStartedWorkSessions'
                              - skippedNotStartedWorkSessions
              dPartial == skippedNotCompletedWorkSessions'
                            - skippedNotCompletedWorkSessions
              dSeconds == totalWorkSeconds' - totalWorkSeconds
          IN  <<dCompleted, dUnstarted, dPartial, dSeconds>> =
                CASE currentPhase.type # "work" -> <<0, 0, 0, 0>>
                  [] currentPhase.type = "work" /\ completed ->
                       <<1, 0, 0, IF e > 0 THEN e ELSE d>>
                  [] currentPhase.type = "work" /\ ~completed /\ e > 0 ->
                       <<0, 0, 1, e>>
                  [] OTHER -> <<0, 1, 0, 0>> ]_vars

\* A short break was left part way and the Work phase after it is entered
\* with its start scheduled: nothing has been counted.
C28_Witness ==
  /\ currentPhaseIndex = 2
  /\ autoStartPending
  /\ remaining = 1500
  /\ StatSum = 0
  /\ totalWorkSeconds = 0

\* ------------------------------------------------------------------------
\* Expiry and automatic start
\* ------------------------------------------------------------------------
\* C29: the refresh that finds the remaining time of a running phase at 0
\* stops the refresh and advances once as completed: the phase is left, a
\* Work phase is counted as completed, and unless the phase is the long break
\* a start of the next phase is scheduled; with no command from the user the
\* timer is eventually running in the next phase.
C29_ExpiryStartsNextPhase ==
  /\ [][ (/\ isRunning
          /\ msToTarget # Null
          /\ RemainingFromClock(msToTarget[1]) = 0
          /\ TickOfSet) =>
           /\ ~isRunning'
           /\ ~intervalId'
           /\ currentPhase.type = "work" =>
                completedWorkSessions' = completedWorkSessions + 1
           /\ skippedNotStartedWorkSessions' = skippedNotStartedWorkSessions
           /\ skippedNotCompletedWorkSessions'
                = skippedNotCompletedWorkSessions
           /\ currentPhase.type # "longBreak" =>
                /\ currentPhaseIndex' = currentPhaseIndex + 1
                /\ remaining' = PhaseAt(phases, currentPhaseIndex').duration
                /\ autoStartPending'
                /\ autoStartTimeoutId'
           /\ currentPhase.type = "longBreak" =>
                /\ milestonePendingReset'
                /\ ~autoStartPending' ]_vars
  /\ \A i \in 0..6 :
       (isRunning /\ currentPhaseIndex = i)
         ~> (isRunning /\ currentPhaseIndex = i + 1)

\* The first Work phase has expired and the short break is running.
C29_Witness ==
  /\ isRunning
  /\ currentPhaseIndex = 1
  /\ completedWorkSessions = 1
  /\ ~autoStartPending

\* ------------------------------------------------------------------------
\* The settings draft
\* ------------------------------------------------------------------------
\* C30: while the settings panel stays open no step changes the live
\* durations, the live colours, the schedule, the index or the remaining
\* time; the live durations, colours and schedule change only in the step
\* that commits the draft, which replaces them together by the values of
\* the draft.
C30_DraftIsStaged ==
  /\ [][ (settingsOpen /\ settingsOpen') =>
           /\ workMinutes' = workMinutes
           /\ breakMinutes' = breakMinutes
           /\ longBreakMinutes' = longBreakMinutes
           /\ phaseColors' = phaseColors
           /\ phases' = phases
           /\ currentPhaseIndex' = currentPhaseIndex
           /\ remaining' = remaining ]_vars
  /\ [][ (<<workMinutes, breakMinutes, longBreakMinutes, phaseColors,
            phases>>'
            # <<workMinutes, breakMinutes, longBreakMinutes, phaseColors,
                phases>>) =>
           /\ settingsOpen
           /\ ~settingsOpen'
           /\ workMinutes' = Max(ApplyWorkFloor, draftDurations.work)
           /\ breakMinutes' = draftDurations.shortBreak
           /\ longBreakMinutes' = draftDurations.longBreak
           /\ phaseColors' = draftPhaseColors
           /\ phases' = buildPhases(workMinutes', breakMinutes',
                                    longBreakMinutes') ]_vars

\* The panel is open in the second phase with every draft value edited and
\* the colour of the long break picked, while the live values are still the
\* defaults.
C30_Witness ==
  /\ settingsOpen
  /\ currentPhaseIndex = 1
  /\ draftDurations = [work |-> 45, shortBreak |-> 10, longBreak |-> 60]
  /\ colorTargetPhase = "longBreak"
  /\ draftPhaseColors.longBreak = "#ff0000"
  /\ workMinutes = DEFAULT_WORK
  /\ breakMinutes = DEFAULT_BREAK
  /\ longBreakMinutes = DEFAULT_LONG_BREAK
  /\ phaseColors = DefaultPhaseColors
  /\ remaining = 300

\* ------------------------------------------------------------------------
\* The configuration over page loads
\* ------------------------------------------------------------------------
LiveDurations == <<workMinutes, breakMinutes, longBreakMinutes>>

\* C31: in every state the live durations are in range, workMinutes in
\* [10, 60], breakMinutes in [1, 10] and longBreakMinutes in [5, 60], and the
\* duration of every phase of the schedule is a positive number of seconds.
C31_DurationsInRange ==
  /\ workMinutes >= MIN_WORK_MINUTES /\ workMinutes <= ClampCeiling
  /\ breakMinutes >= MIN_BREAK_MINUTES /\ breakMinutes <= MAX_BREAK_MINUTES
  /\ longBreakMinutes >= MIN_LONG_BREAK_MINUTES
  /\ longBreakMinutes <= ClampCeiling
  /\ \A i \in 1..Len(phases) : phases[i].duration \in Nat \ {0}

\* C38: committing a draft that still holds the values written when the
\* panel was opened leaves the three live durations as they were.
C38_CommitUneditedIsIdentity ==
  [][ (/\ settingsOpen
       /\ draftDurations = [work |-> workMinutes,
                            shortBreak |-> breakMinutes,
                            longBreak |-> longBreakMinutes]
       /\ BackFromSettings) =>
        LiveDurations' = LiveDurations ]_vars

\* C39: a commit stores the three durations it has made live, and loading
\* the page from an item that holds the live durations, as the item is after
\* every commit, leaves them as they are: no committed value is replaced by
\* a default.
C39_PersistRoundTrip ==
  /\ [][ (settingsOpen /\ BackFromSettings) =>
           /\ storedSettings'.kind = "object"
           /\ storedSettings'.workMinutes = Num(workMinutes')
           /\ storedSettings'.breakMinutes = Num(breakMinutes')
           /\ storedSettings'.longBreakMinutes = Num(longBreakMinutes') ]_vars
  /\ [][ (/\ storedSettings.kind = "object"
          /\ storedSettings.workMinutes = Num(workMinutes)
          /\ storedSettings.breakMinutes = Num(breakMinutes)
          /\ storedSettings.longBreakMinutes = Num(longBreakMinutes)
          /\ Reload) =>
           LiveDurations' = LiveDurations ]_vars

\* The lowest durations the panel can commit are live and stored.
C39_Witness ==
  /\ ~settingsOpen
  /\ LiveDurations = <<10, 3, 5>>
  /\ storedSettings.kind = "object"
  /\ storedSettings.workMinutes = Num(10)
  /\ storedSettings.breakMinutes = Num(3)
  /\ storedSettings.longBreakMinutes = Num(5)

\* ------------------------------------------------------------------------
\* Commands and the timer callbacks
\* ------------------------------------------------------------------------
\* C33: a reset of the current phase, a skip while the timer is not running
\* and the acknowledgement of a milestone leave no auto-start timeout behind
\* that could start the countdown: after each of them a timeout that is
\* still pending would find its start refused.
C33_CommandsLeaveNoAutoStart ==
  [][ (/\ ~settingsOpen
       /\ \/ /\ ~milestonePendingReset
             /\ DblClickOverlay \/ (~isRunning /\ NextButton)
          \/ /\ milestonePendingReset
             /\ MilestoneOk) =>
        /\ ~isRunning'
        /\ autoStartPending' => (settingsOpen' \/ milestonePendingReset')
      ]_vars

\* C34: once the timer runs in phase 0 and is left to itself, the phases are
\* entered in order, the milestone is eventually pending, and when it is
\* pending four Work phases are counted as completed, none as skipped, and
\* totalWorkSeconds is 4 * workMinutes * 60.
C34_FullSet ==
  /\ [][ \/ currentPhaseIndex' = currentPhaseIndex
         \/ currentPhaseIndex' = currentPhaseIndex + 1 ]_vars
  /\ [](milestonePendingReset =>
          /\ currentPhaseIndex = 7
          /\ completedWorkSessions = 4
          /\ skippedNotStartedWorkSessions = 0
          /\ skippedNotCompletedWorkSessions = 0
          /\ totalWorkSeconds = 4 * workMinutes * SecondsPerMinute)
  /\ (isRunning /\ currentPhaseIndex = 0) ~> milestonePendingReset

\* The long break has expired at the end of an unattended set.
C34_Witness ==
  /\ milestonePendingReset
  /\ currentPhaseIndex = 7
  /\ remaining = 0
  /\ completedWorkSessions = 4
  /\ totalWorkSeconds = 6000
  /\ ~isRunning

\* C35: the recorded status agrees with the flags of the engine: it is
\* RUNNING exactly when isRunning is true, SETTINGS exactly when the settings
\* panel is open and MILESTONE exactly when a milestone is pending.
C35_StatusAgreesWithFlags ==
  /\ (appState = APP_STATE.RUNNING) <=> isRunning
  /\ (appState = APP_STATE.SETTINGS) <=> settingsOpen
  /\ (appState = APP_STATE.MILESTONE) <=> milestonePendingReset

\* C37: while the settings panel is open or a milestone is pending, a click,
\* a double click and a skip, and while a milestone is pending the settings
\* button, change neither the index, the remaining time, the statistics nor
\* the running status.
C37_CommandsRefused ==
  [][ (\/ /\ settingsOpen \/ milestonePendingReset
          /\ ClickOverlay \/ DblClickOverlay \/ NextButton
       \/ /\ milestonePendingReset
          /\ SettingsButton) =>
        UNCHANGED <<currentPhaseIndex, currentPhase, remaining, msToTarget,
                    completedWorkSessions, skippedNotStartedWorkSessions,
                    skippedNotCompletedWorkSessions, totalWorkSeconds,
                    isRunning, intervalId, appState, settingsOpen,
                    milestonePendingReset, autoStartPending>> ]_vars

\* The settings panel was opened on a running timer part way through a
\* phase: a double click would reset it and a skip would count it.
C37_Witness ==
  /\ settingsOpen
  /\ wasRunningBeforeSettings
  /\ remaining > 0
  /\ remaining < currentPhase.duration

\* ------------------------------------------------------------------------
\* Outbound events and the refresh interval
\* ------------------------------------------------------------------------
RECURSIVE CountOf(_, _)
CountOf(name, log) ==
  IF log = <<>> THEN 0
  ELSE (IF Head(log) = name THEN 1 ELSE 0) + CountOf(name, Tail(log))

\* C32: a step logs start_pomodoro once if it starts the stopped timer and
\* not otherwise, complete_pomodoro once if it counts a Work phase as
\* completed and not otherwise (never on a skip), phase_skip once if it is a
\* skip that is accepted and not otherwise, settings_change once if it
\* commits the settings and not otherwise, and nothing else.
C32_EventsAtDefinedPoints ==
  [][ /\ CountOf("start_pomodoro", emitted')
           = (IF ~isRunning /\ isRunning' THEN 1 ELSE 0)
      /\ CountOf("complete_pomodoro", emitted')
           = (IF completedWorkSessions' = completedWorkSessions + 1
                THEN 1 ELSE 0)
      /\ CountOf("settings_change", emitted')
           = (IF settingsOpen /\ ~settingsOpen' THEN 1 ELSE 0)
      /\ CountOf("phase_skip", emitted')
           = (IF ~settingsOpen /\ ~milestonePendingReset /\ NextButton
                THEN 1 ELSE 0)
      /\ CountOf("phase_skip", emitted') = 1 =>
           CountOf("complete_pomodoro", emitted') = 0
      /\ Len(emitted') = CountOf("start_pomodoro", emitted')
                           + CountOf("complete_pomodoro", emitted')
                           + CountOf("settings_change", emitted')
                           + CountOf("phase_skip", emitted') ]_vars

\* A commit has restarted the timer that ran when the panel was opened: the
\* start and the commit are logged, in this order.
C32_Witness ==
  /\ emitted = <<"start_pomodoro", "settings_change">>
  /\ isRunning
  /\ ~settingsOpen

\* C36: the refresh interval is set exactly when the timer runs, and never
\* more than one interval is live.
C36_RefreshIffRunning ==
  /\ intervalId <=> isRunning
  /\ intervals = (IF isRunning THEN 1 ELSE 0)
  /\ intervals <= 1

\* The timer runs in the short break after the first Work phase has expired:
\* the interval of phase 0 was cleared and one interval is live.
C36_Witness ==
  /\ isRunning
  /\ intervalId
  /\ intervals = 1
  /\ currentPhaseIndex = 1
  /\ completedWorkSessions = 1

====
